---- MODULE Spec2Model ----
(***************************************************************************)
(* CLIScript: the parser of script/core.py and the schema builder and      *)
(* dispatcher of cli.py (CLIRunner), as one state machine.                 *)
(*                                                                         *)
(* Strings are TLA+ strings, read character by character with SubSeq.      *)
(* An optional value of the AST (Python's None or a value) is <<>> or      *)
(* <<value>>.  A value of the argparse namespace is a tagged record        *)
(* [t |-> "none" | "str" | "int" | "float" | "bool" | "list" | "func"].    *)
(***************************************************************************)
EXTENDS Integers, Sequences, FiniteSets, TLC

VARIABLES
    pc,                \* where the compile-and-run call chain stands
    lexer,             \* the Lexer of CLIScriptParser.parse (<<>> when the
                       \* token list is given directly)
    tokens,            \* Parser.tokens
    position,          \* Parser.position (1-based here)
    ast,               \* Parser.ast, then CLIRunner.ast (the same list object)
    has_default,       \* Parser.has_default
    has_commands,      \* Parser.has_commands
    parser_root,       \* Parser.root_options
    imported_modules,  \* CLIRunner.imported_modules, in insertion order
    has_default_command, \* CLIRunner.has_default_command
    default_command,   \* CLIRunner.default_command (<<>> or <<node>>)
    appname,           \* CLIRunner.appname
    root_options,      \* CLIRunner.root_options
    root_actions,      \* CLIRunner.root_actions
    parser,            \* CLIRunner.parser: the argparse schema
    argv,              \* sys.argv[1:] as read by parse_args
    args,              \* the namespace parse_args returned
    calls,             \* the host functions invoked, in order, with their keywords
    stderr,            \* what was reported on the error stream, in order
    stdout,            \* what was printed on the output stream, in order
    exit_code          \* <<>> while running, <<status>> once the process ended

vars == <<pc, lexer, tokens, position, ast, has_default, has_commands, parser_root,
          imported_modules, has_default_command, default_command, appname,
          root_options, root_actions, parser, argv, args, calls, stderr,
          stdout, exit_code>>

parserVars == <<lexer, tokens, position, ast, has_default, has_commands, parser_root>>
runnerVars == <<imported_modules, has_default_command, default_command, appname,
                root_options, root_actions, parser, argv, args, calls, stderr,
                stdout, exit_code>>

-----------------------------------------------------------------------------
(* Strings *)

None == <<>>
Some(x) == <<x>>

CharAt(s, i) == SubSeq(s, i, i)

StartsWith(s, p) == Len(s) >= Len(p) /\ SubSeq(s, 1, Len(p)) = p

EndsWith(s, p) == Len(s) >= Len(p) /\ SubSeq(s, Len(s) - Len(p) + 1, Len(s)) = p

DropFirst(s, n) == SubSeq(s, n + 1, Len(s))

RECURSIVE Replace(_, _, _)
\* str.replace(old, new) for a one-character old
Replace(s, old, new) ==
    IF Len(s) = 0 THEN ""
    ELSE (IF CharAt(s, 1) = old THEN new ELSE CharAt(s, 1))
         \o Replace(DropFirst(s, 1), old, new)

RECURSIVE LStrip(_, _)
\* str.lstrip(c) for a one-character c
LStrip(s, c) ==
    IF Len(s) > 0 /\ CharAt(s, 1) = c THEN LStrip(DropFirst(s, 1), c) ELSE s

RECURSIVE Find(_, _, _)
\* the index of the first c in s at or after i, 0 when there is none
Find(s, c, i) ==
    IF i > Len(s) THEN 0
    ELSE IF CharAt(s, i) = c THEN i
    ELSE Find(s, c, i + 1)

RECURSIVE Split(_, _)
\* str.split(c)
Split(s, c) ==
    LET k == Find(s, c, 1)
    IN  IF k = 0 THEN <<s>>
        ELSE <<SubSeq(s, 1, k - 1)>> \o Split(DropFirst(s, k), c)

\* the sequences over S of length at most n
SeqsUpTo(S, n) == UNION { [1..k -> S] : k \in 0..n }

-----------------------------------------------------------------------------
(* Tokens *)

Tok(ty, val) == [type |-> ty, value |-> val]

RECURSIVE NewlinesBefore(_, _)
NewlinesBefore(toks, i) ==
    IF i <= 1 THEN 0
    ELSE NewlinesBefore(toks, i - 1)
         + (IF toks[i - 1].type = "NEWLINE" THEN 1 ELSE 0)

\* The token list Lexer.tokenize returns for a token stream: every token with
\* its 1-based line, and the EOF sentinel appended.
Tokenized(toks) ==
    [i \in 1..(Len(toks) + 1) |->
        IF i <= Len(toks)
        THEN [type |-> toks[i].type, value |-> toks[i].value,
              line |-> 1 + NewlinesBefore(toks, i)]
        ELSE [type |-> "EOF", value |-> "",
              line |-> 1 + NewlinesBefore(toks, i)]]

-----------------------------------------------------------------------------
(* Parser: cursor primitives *)

_is_eof(toks, p) == p > Len(toks) \/ toks[p].type = "EOF"

_match(toks, p, ty) == ~_is_eof(toks, p) /\ toks[p].type = ty

\* _advance without its increment
CursorStays(toks, p) == p

\* the cursor after _advance
_advance(toks, p) == IF _is_eof(toks, p) THEN p ELSE p + 1

\* the token _advance returns
Advanced(toks, p) == IF _is_eof(toks, p) THEN toks[Len(toks)] ELSE toks[p]

\* the result of a sub-parser: err is TRUE when it raised SyntaxError
Ok(p, n) == [err |-> FALSE, pos |-> p, node |-> n]
Raised(p) == [err |-> TRUE, pos |-> p, node |-> <<>>]

\* _expect: the token consumed, or a raise
_expect(toks, p, ty) ==
    IF _match(toks, p, ty) THEN Ok(p + 1, toks[p]) ELSE Raised(p)

EmptyDict == [k \in {} |-> TRUE]

\* attributes[key] = value
DictSet(d, k, v) == (k :> v) @@ d

\* "if self._match(ty): self._advance()": the cursor afterwards
SkipIf(toks, p, ty) == IF _match(toks, p, ty) THEN p + 1 ELSE p

\* "if self._match(ty): x = self._advance().value": the cursor and x (else None)
TakeIf(toks, p, ty) ==
    IF _match(toks, p, ty) THEN [pos |-> p + 1, val |-> Some(toks[p].value)]
    ELSE [pos |-> p, val |-> None]

RECURSIVE ParseFlags(_, _, _)
\* the flag loop of _parse_option
ParseFlags(toks, p, flags) ==
    IF _match(toks, p, "FLAG")
    THEN ParseFlags(toks, SkipIf(toks, p + 1, "COMMA"), Append(flags, toks[p].value))
    ELSE [pos |-> p, flags |-> flags]

\* one attribute token stored in the attribute map: "key:value" split on the
\* first colon, or a bare key mapped to True
AttributeSet(attrs, v, k) ==
    IF k > 0 THEN DictSet(attrs, SubSeq(v, 1, k - 1), DropFirst(v, k))
    ELSE DictSet(attrs, v, TRUE)

RECURSIVE ParseAttributes(_, _, _)
\* the attribute loop of _parse_option and _parse_argument
ParseAttributes(toks, p, attrs) ==
    IF _match(toks, p, "ATTRIBUTE")
    THEN ParseAttributes(toks, p + 1,
             AttributeSet(attrs, toks[p].value, Find(toks[p].value, ":", 1)))
    ELSE [pos |-> p, attributes |-> attrs]

\* the common tail of _parse_option and _parse_argument: type, attributes,
\* description, newline
TailEnd(toks, ty, at, de) ==
    [pos |-> SkipIf(toks, de.pos, "NEWLINE"), data_type |-> ty.val,
     attributes |-> at.attributes, description |-> de.val]

TailDescription(toks, ty, at) == TailEnd(toks, ty, at, TakeIf(toks, at.pos, "STRING"))

TailAttributes(toks, ty) ==
    TailDescription(toks, ty, ParseAttributes(toks, ty.pos, EmptyDict))

ParseTail(toks, p) == TailAttributes(toks, TakeIf(toks, p, "TYPE"))

OptionNode(fl, pa, tl) ==
    Ok(tl.pos, [type |-> "option", flags |-> fl.flags, param |-> pa.val,
                data_type |-> tl.data_type, attributes |-> tl.attributes,
                description |-> tl.description])

OptionParam(toks, fl, pa) == OptionNode(fl, pa, ParseTail(toks, pa.pos))

OptionFlags(toks, fl) == OptionParam(toks, fl, TakeIf(toks, fl.pos, "ARGUMENT"))

_parse_option(toks, p) == OptionFlags(toks, ParseFlags(toks, p, <<>>))

ArgumentNode(raw, tl) ==
    Ok(tl.pos, [type |-> "argument",
                name |-> IF EndsWith(raw, "...")
                         THEN SubSeq(raw, 1, Len(raw) - 3) ELSE raw,
                data_type |-> tl.data_type, attributes |-> tl.attributes,
                description |-> tl.description,
                variadic |-> EndsWith(raw, "...")])

_parse_argument(toks, p) ==
    ArgumentNode(Advanced(toks, p).value, ParseTail(toks, _advance(toks, p)))

\* one parameter of an action: "$" then an identifier then an optional comma
ParamStep(toks, e, params) ==
    IF e.err THEN Raised(e.pos)
    ELSE Ok(SkipIf(toks, e.pos, "COMMA"), Append(params, "$" \o e.node.value))

RECURSIVE ParseParams(_, _, _)
\* the parameter loop of _parse_action: stops at ")" or end of input, breaks on
\* anything that is not "$"
ParamLoop(toks, st) == IF st.err THEN st ELSE ParseParams(toks, st.pos, st.node)

ParseParams(toks, p, params) ==
    IF ~_match(toks, p, "RPAREN") /\ ~_is_eof(toks, p) /\ _match(toks, p, "DOLLAR")
    THEN ParamLoop(toks, ParamStep(toks, _expect(toks, p + 1, "IDENTIFIER"), params))
    ELSE Ok(p, params)

ActionNode(toks, arrow, f, ps, paren) ==
    IF ps.err THEN Raised(ps.pos)
    ELSE Ok(SkipIf(toks, IF paren THEN SkipIf(toks, ps.pos, "RPAREN") ELSE ps.pos,
                   "NEWLINE"),
            [type |-> "action", function |-> f.node.value,
             params |-> ps.node, line |-> arrow.line])

ActionFunction(toks, arrow, f) ==
    IF f.err THEN Raised(f.pos)
    ELSE IF _match(toks, f.pos, "LPAREN")
    THEN ActionNode(toks, arrow, f, ParseParams(toks, f.pos + 1, <<>>), TRUE)
    ELSE ActionNode(toks, arrow, f, Ok(f.pos, <<>>), FALSE)

_parse_action(toks, p) ==
    ActionFunction(toks, Advanced(toks, p),
                   _expect(toks, _advance(toks, p), "IDENTIFIER"))

RootOptionAction(o, a) ==
    IF a.err THEN Raised(a.pos) ELSE Ok(a.pos, o @@ [action |-> a.node])

RootOptionNode(toks, root_token, o) ==
    IF _match(toks, o.pos, "ARROW")
    THEN RootOptionAction(o.node @@ [line |-> root_token.line],
                          _parse_action(toks, o.pos))
    ELSE Ok(o.pos, o.node @@ [line |-> root_token.line])

_parse_root_option(toks, p) ==
    RootOptionNode(toks, Advanced(toks, p), _parse_option(toks, _advance(toks, p)))

UseNode(use_token, m) ==
    IF m.err THEN Raised(m.pos)
    ELSE Ok(m.pos, [type |-> "use", module |-> m.node.value,
                    line |-> use_token.line])

_parse_use_statement(toks, p) ==
    UseNode(Advanced(toks, p), _expect(toks, _advance(toks, p), "STRING"))

AppnameNode(appname_token, n) ==
    IF n.err THEN Raised(n.pos)
    ELSE Ok(n.pos, [type |-> "appname", name |-> n.node.value,
                    line |-> appname_token.line])

_parse_appname_statement(toks, p) ==
    AppnameNode(Advanced(toks, p), _expect(toks, _advance(toks, p), "STRING"))

BodyOption(b, o) == Ok(o.pos, [b EXCEPT !.options = Append(@, o.node)])

BodyArgument(b, a) == Ok(a.pos, [b EXCEPT !.arguments = Append(@, a.node)])

BodyAction(b, a) ==
    IF a.err THEN Raised(a.pos) ELSE Ok(a.pos, [b EXCEPT !.action = Some(a.node)])

\* one iteration of the loop of _parse_command_body; b is the body so far
BodyStep(toks, p, b) ==
    IF _match(toks, p, "NEWLINE") THEN Ok(p + 1, b)
    ELSE IF _match(toks, p, "FLAG") THEN BodyOption(b, _parse_option(toks, p))
    ELSE IF _match(toks, p, "ARGUMENT") THEN BodyArgument(b, _parse_argument(toks, p))
    ELSE IF _match(toks, p, "ARROW") THEN BodyAction(b, _parse_action(toks, p))
    ELSE Ok(_advance(toks, p), b)

\* the loop condition of _parse_command_body
BodyContinues(toks, p) ==
    /\ ~_is_eof(toks, p)
    /\ ~_match(toks, p, "CMD")
    /\ ~_match(toks, p, "DEFAULT")
    /\ ~_match(toks, p, "USE")

RECURSIVE BodyLoop(_, _, _)
BodyNext(toks, st) == IF st.err THEN st ELSE BodyLoop(toks, st.pos, st.node)

BodyLoop(toks, p, b) ==
    IF ~BodyContinues(toks, p) THEN Ok(p, b)
    ELSE BodyNext(toks, BodyStep(toks, p, b))

_parse_command_body(toks, p) ==
    BodyLoop(toks, p, [options |-> <<>>, arguments |-> <<>>, action |-> None])

CommandNode(cmd_token, n, de, b) ==
    IF b.err THEN Raised(b.pos)
    ELSE Ok(b.pos, [type |-> "command", name |-> n.node.value,
                    description |-> de.val, body |-> b.node,
                    line |-> cmd_token.line])

CommandDescription(toks, cmd_token, n, de) ==
    CommandNode(cmd_token, n, de, _parse_command_body(toks, de.pos))

CommandName(toks, cmd_token, n) ==
    IF n.err THEN Raised(n.pos)
    ELSE CommandDescription(toks, cmd_token, n, TakeIf(toks, n.pos, "STRING"))

_parse_command(toks, p) ==
    CommandName(toks, Advanced(toks, p),
                _expect(toks, _advance(toks, p), "IDENTIFIER"))

DefaultNode(default_token, d, b) ==
    IF b.err THEN Raised(b.pos)
    ELSE Ok(b.pos, [type |-> "default", description |-> d.node.value,
                    body |-> b.node, line |-> default_token.line])

DefaultDescription(toks, default_token, d) ==
    IF d.err THEN Raised(d.pos)
    ELSE DefaultNode(default_token, d, _parse_command_body(toks, d.pos))

_parse_default_command(toks, p) ==
    DefaultDescription(toks, Advanced(toks, p),
                       _expect(toks, _advance(toks, p), "STRING"))

-----------------------------------------------------------------------------
(* Parser.parse: one action per branch of the top-level loop *)

Parsing == pc = "parse" /\ ~_is_eof(tokens, position)

\* a sub-parser raised SyntaxError: it propagates out of CLIScriptParser.parse
\* and ends the process; no AST is returned
RaiseSyntaxError ==
    /\ pc' = "raised"
    /\ stderr' = Append(stderr, "SyntaxError")
    /\ exit_code' = Some(1)

\* self.ast.append(<statement>), or the raise of the statement's parser
AppendStatement(r) ==
    /\ position' = r.pos
    /\ IF r.err
       THEN RaiseSyntaxError /\ UNCHANGED ast
       ELSE /\ ast' = Append(ast, r.node)
            /\ UNCHANGED <<pc, stderr, exit_code>>

\* self.root_options.append(self._parse_root_option())
AppendRootOption(r) ==
    /\ position' = r.pos
    /\ IF r.err
       THEN RaiseSyntaxError /\ UNCHANGED parser_root
       ELSE /\ parser_root' = Append(parser_root, r.node)
            /\ UNCHANGED <<pc, stderr, exit_code>>

ParseNewline ==
    /\ Parsing
    /\ _match(tokens, position, "NEWLINE")
    /\ position' = _advance(tokens, position)
    /\ UNCHANGED <<pc, lexer, tokens, ast, has_default, has_commands, parser_root>>
    /\ UNCHANGED runnerVars

ParseAppname ==
    /\ Parsing
    /\ _match(tokens, position, "APPNAME")
    /\ AppendStatement(_parse_appname_statement(tokens, position))
    /\ UNCHANGED <<lexer, tokens, has_default, has_commands, parser_root>>
    /\ UNCHANGED <<imported_modules, has_default_command, default_command,
                   appname, root_options, root_actions, parser, argv, args,
                   calls, stdout>>

ParseUse ==
    /\ Parsing
    /\ _match(tokens, position, "USE")
    /\ AppendStatement(_parse_use_statement(tokens, position))
    /\ UNCHANGED <<lexer, tokens, has_default, has_commands, parser_root>>
    /\ UNCHANGED <<imported_modules, has_default_command, default_command,
                   appname, root_options, root_actions, parser, argv, args,
                   calls, stdout>>

ParseRoot ==
    /\ Parsing
    /\ _match(tokens, position, "ROOT")
    /\ AppendRootOption(_parse_root_option(tokens, position))
    /\ UNCHANGED <<lexer, tokens, ast, has_default, has_commands>>
    /\ UNCHANGED <<imported_modules, has_default_command, default_command,
                   appname, root_options, root_actions, parser, argv, args,
                   calls, stdout>>

\* the parser with the check of a second 'default' left out: the exclusion
\* rule of C4 does not survive it
DefaultAfterDefault == has_commands

\* if self.has_default: raise SyntaxError(...)
CmdForbidden == has_default

\* if self.has_commands or self.has_default: raise SyntaxError(...)
DefaultForbidden == has_commands \/ has_default

ParseCmd ==
    /\ Parsing
    /\ _match(tokens, position, "CMD")
    /\ IF CmdForbidden
       THEN \* "Cannot use 'cmd' after 'default' command"
            /\ RaiseSyntaxError
            /\ UNCHANGED <<position, ast, has_commands>>
       ELSE /\ has_commands' = TRUE
            /\ AppendStatement(_parse_command(tokens, position))
    /\ UNCHANGED <<lexer, tokens, has_default, parser_root>>
    /\ UNCHANGED <<imported_modules, has_default_command, default_command,
                   appname, root_options, root_actions, parser, argv, args,
                   calls, stdout>>

ParseDefault ==
    /\ Parsing
    /\ _match(tokens, position, "DEFAULT")
    /\ IF DefaultForbidden
       THEN \* "Cannot use 'default' with other commands"
            /\ RaiseSyntaxError
            /\ UNCHANGED <<position, ast, has_default>>
       ELSE /\ has_default' = TRUE
            /\ AppendStatement(_parse_default_command(tokens, position))
    /\ UNCHANGED <<lexer, tokens, has_commands, parser_root>>
    /\ UNCHANGED <<imported_modules, has_default_command, default_command,
                   appname, root_options, root_actions, parser, argv, args,
                   calls, stdout>>

\* an unrecognized top-level token is skipped
ParseSkip ==
    /\ Parsing
    /\ tokens[position].type \notin
           {"NEWLINE", "APPNAME", "USE", "ROOT", "CMD", "DEFAULT"}
    /\ position' = _advance(tokens, position)
    /\ UNCHANGED <<pc, lexer, tokens, ast, has_default, has_commands, parser_root>>
    /\ UNCHANGED runnerVars

\* the end of Parser.parse: the root options collected become one AST node,
\* and CLIRunner(ast).run() starts
ParseReturn ==
    /\ pc = "parse"
    /\ _is_eof(tokens, position)
    /\ ast' = IF parser_root # <<>>
              THEN Append(ast, [type |-> "root_options", options |-> parser_root])
              ELSE ast
    /\ pc' = "run_import"
    /\ UNCHANGED <<lexer, tokens, position, has_default, has_commands, parser_root>>
    /\ UNCHANGED runnerVars

ParseNext ==
    \/ ParseNewline
    \/ ParseAppname
    \/ ParseUse
    \/ ParseRoot
    \/ ParseCmd
    \/ ParseDefault
    \/ ParseSkip
    \/ ParseReturn

\* Parser.__init__ over a token list, and CLIRunner.__init__
InitOn(toks) ==
    /\ pc = "parse"
    /\ lexer = None
    /\ tokens = toks
    /\ position = 1
    /\ ast = <<>>
    /\ has_default = FALSE
    /\ has_commands = FALSE
    /\ parser_root = <<>>
    /\ imported_modules = <<>>
    /\ has_default_command = FALSE
    /\ default_command = None
    /\ appname = "CLI Tool"
    /\ root_options = <<>>
    /\ root_actions = EmptyDict
    /\ parser = None
    /\ argv = <<>>
    /\ args = None
    /\ calls = <<>>
    /\ stderr = <<>>
    /\ stdout = <<>>
    /\ exit_code = None

-----------------------------------------------------------------------------
(* Lexer: the rule table and re.match, character by character *)

Letters ==
    { "a", "b", "c", "d", "e", "f", "g", "h", "i", "j", "k", "l", "m",
      "n", "o", "p", "q", "r", "s", "t", "u", "v", "w", "x", "y", "z",
      "A", "B", "C", "D", "E", "F", "G", "H", "I", "J", "K", "L", "M",
      "N", "O", "P", "Q", "R", "S", "T", "U", "V", "W", "X", "Y", "Z" }

Digits == { "0", "1", "2", "3", "4", "5", "6", "7", "8", "9" }

\* \w, on which \b depends
WordChars == Letters \cup Digits \cup {"_"}

\* [a-zA-Z0-9\-]
FlagChars == Letters \cup Digits \cup {"-"}

\* [a-zA-Z0-9_\-\.]
IdentifierChars == WordChars \cup {"-", "."}

\* the character of s at i, "" past the end
NextChar(s, i) == IF i >= 1 /\ i <= Len(s) THEN CharAt(s, i) ELSE ""

\* s continues with p at i
StartsAt(s, i, p) == i + Len(p) - 1 <= Len(s) /\ SubSeq(s, i, i + Len(p) - 1) = p

RECURSIVE Run(_, _, _)
\* [class]*: how many characters of s from i on are in class
Run(s, i, class) ==
    IF i <= Len(s) /\ CharAt(s, i) \in class THEN 1 + Run(s, i + 1, class) ELSE 0

RECURSIVE RunNot(_, _, _)
\* [^class]*: how many characters of s from i on are not in class
RunNot(s, i, class) ==
    IF i <= Len(s) /\ CharAt(s, i) \notin class THEN 1 + RunNot(s, i + 1, class) ELSE 0

\* The operators below give the length of the match of one pattern at i,
\* 0 when the pattern does not match (no pattern matches the empty string).

\* kw\b
Keyword(s, i, kw) ==
    IF StartsAt(s, i, kw) /\ NextChar(s, i + Len(kw)) \notin WordChars
    THEN Len(kw) ELSE 0

Literal(s, i, p) == IF StartsAt(s, i, p) THEN Len(p) ELSE 0

\* open [^stop]+ close
Bracketed(s, i, open, stop, close) ==
    IF StartsAt(s, i, open)
          /\ RunNot(s, i + Len(open), {stop}) >= 1
          /\ StartsAt(s, i + Len(open) + RunNot(s, i + Len(open), {stop}), close)
    THEN Len(open) + RunNot(s, i + Len(open), {stop}) + Len(close)
    ELSE 0

\* a|b|...: the first alternative that matches
Alternatives(ms) ==
    IF \E k \in 1..Len(ms) : ms[k] > 0
    THEN ms[CHOOSE k \in 1..Len(ms) : ms[k] > 0 /\ \A j \in 1..(k - 1) : ms[j] = 0]
    ELSE 0

\* --?[a-zA-Z0-9\-]+
FlagPattern(s, i) ==
    IF NextChar(s, i) = "-" /\ Run(s, i, FlagChars) >= 2
    THEN Run(s, i, FlagChars) ELSE 0

\* \[(bool|string|int|float|choice:[^\]]+)\]
TypePattern(s, i) ==
    Alternatives(<<Literal(s, i, "[bool]"), Literal(s, i, "[string]"),
                   Literal(s, i, "[int]"), Literal(s, i, "[float]"),
                   Bracketed(s, i, "[choice:", "]", "]")>>)

\* \[(required|default:[^\]]+|multiple|if\([^)]+\))\]
AttributePattern(s, i) ==
    Alternatives(<<Literal(s, i, "[required]"),
                   Bracketed(s, i, "[default:", "]", "]"),
                   Literal(s, i, "[multiple]"),
                   Bracketed(s, i, "[if(", ")", ")]")>>)

RECURSIVE StringBody(_, _)
\* ([^"\\]|\\.)*" from i on: the index after the closing quote, 0 when the
\* text does not match ("." is any character but a newline)
StringBody(s, i) ==
    IF i > Len(s) THEN 0
    ELSE IF CharAt(s, i) = "\"" THEN i + 1
    ELSE IF CharAt(s, i) = "\\"
         THEN IF i + 1 <= Len(s) /\ CharAt(s, i + 1) # "\n"
              THEN StringBody(s, i + 2) ELSE 0
    ELSE StringBody(s, i + 1)

\* "([^"\\]|\\.)*"
StringPattern(s, i) ==
    IF NextChar(s, i) = "\"" /\ StringBody(s, i + 1) # 0
    THEN StringBody(s, i + 1) - i ELSE 0

\* [a-zA-Z_][a-zA-Z0-9_\-\.]*
IdentifierPattern(s, i) ==
    IF NextChar(s, i) \in Letters \cup {"_"}
    THEN 1 + Run(s, i + 1, IdentifierChars) ELSE 0

\* #.*
CommentPattern(s, i) ==
    IF NextChar(s, i) = "#" THEN 1 + RunNot(s, i + 1, {"\n"}) ELSE 0

\* Lexer.rules, in the order of the table; "SKIP" is the rule type None
rules ==
    << [type |-> "USE", pattern |-> "use\\b"],
       [type |-> "CMD", pattern |-> "cmd\\b"],
       [type |-> "DEFAULT", pattern |-> "default\\b"],
       [type |-> "OPTION", pattern |-> "option\\b"],
       [type |-> "ROOT", pattern |-> "root\\b"],
       [type |-> "APPNAME", pattern |-> "appname\\b"],
       [type |-> "ARROW", pattern |-> "->"],
       [type |-> "COMMA", pattern |-> ","],
       [type |-> "LPAREN", pattern |-> "\\("],
       [type |-> "RPAREN", pattern |-> "\\)"],
       [type |-> "DOLLAR", pattern |-> "\\$"],
       [type |-> "FLAG", pattern |-> "--?[a-zA-Z0-9\\-]+"],
       [type |-> "TYPE", pattern |-> "\\[(bool|string|int|float|choice:[^\\]]+)\\]"],
       [type |-> "ATTRIBUTE",
        pattern |-> "\\[(required|default:[^\\]]+|multiple|if\\([^)]+\\))\\]"],
       [type |-> "STRING", pattern |-> "\"([^\"\\\\]|\\\\.)*\""],
       [type |-> "IDENTIFIER", pattern |-> "<[^>]+>"],
       [type |-> "IDENTIFIER", pattern |-> "[a-zA-Z_][a-zA-Z0-9_\\-\\.]*"],
       [type |-> "SKIP", pattern |-> "[ \\t]+"],
       [type |-> "SKIP", pattern |-> "#.*"],
       [type |-> "NEWLINE", pattern |-> "\\n"] >>

\* re.match(pattern, source[i:]): the length of match.group(0), 0 for no match
ReMatch(k, s, i) ==
    CASE k = 1 -> Keyword(s, i, "use")
      [] k = 2 -> Keyword(s, i, "cmd")
      [] k = 3 -> Keyword(s, i, "default")
      [] k = 4 -> Keyword(s, i, "option")
      [] k = 5 -> Keyword(s, i, "root")
      [] k = 6 -> Keyword(s, i, "appname")
      [] k = 7 -> Literal(s, i, "->")
      [] k = 8 -> Literal(s, i, ",")
      [] k = 9 -> Literal(s, i, "(")
      [] k = 10 -> Literal(s, i, ")")
      [] k = 11 -> Literal(s, i, "$")
      [] k = 12 -> FlagPattern(s, i)
      [] k = 13 -> TypePattern(s, i)
      [] k = 14 -> AttributePattern(s, i)
      [] k = 15 -> StringPattern(s, i)
      [] k = 16 -> Bracketed(s, i, "<", ">", ">")
      [] k = 17 -> IdentifierPattern(s, i)
      [] k = 18 -> Run(s, i, {" ", "\t"})
      [] k = 19 -> CommentPattern(s, i)
      [] k = 20 -> Literal(s, i, "\n")

\* the rules that match at i
MatchingRules(s, i) == { k \in 1..Len(rules) : ReMatch(k, s, i) > 0 }

\* the rule the loop of _read_next_token stops at: the first of the table
\* that matches, 0 when the loop runs to its end
FirstMatch(s, i) ==
    IF MatchingRules(s, i) = {} THEN 0
    ELSE CHOOSE k \in MatchingRules(s, i) : \A j \in MatchingRules(s, i) : k <= j

\* one escape sequence of a string literal
Escape(c) ==
    CASE c = "n" -> "\n"
      [] c = "t" -> "\t"
      [] c = "\"" -> "\""
      [] c = "\\" -> "\\"
      [] OTHER -> "\\" \o c

RECURSIVE _unescape_string(_)
\* bytes(s).decode("unicode_escape"), for the escapes \n \t \" \\ and for
\* the backslashes before a character that starts no escape, which stay
_unescape_string(s) ==
    IF Len(s) = 0 THEN ""
    ELSE IF CharAt(s, 1) = "\\" /\ Len(s) >= 2
         THEN Escape(CharAt(s, 2)) \o _unescape_string(DropFirst(s, 2))
    ELSE CharAt(s, 1) \o _unescape_string(DropFirst(s, 1))

RECURSIVE ColumnNeverReset(_, _)
\* _update_position without the reset of the column after a newline
ColumnNeverReset(lx, text) ==
    IF Len(text) = 0 THEN lx
    ELSE ColumnNeverReset(
             IF CharAt(text, 1) = "\n"
             THEN [lx EXCEPT !.line = @ + 1, !.column = @ + 1, !.position = @ + 1]
             ELSE [lx EXCEPT !.column = @ + 1, !.position = @ + 1],
             DropFirst(text, 1))

RECURSIVE _update_position(_, _)
\* Lexer._update_position(text)
_update_position(lx, text) ==
    IF Len(text) = 0 THEN lx
    ELSE _update_position(
             IF CharAt(text, 1) = "\n"
             THEN [lx EXCEPT !.line = @ + 1, !.column = 1, !.position = @ + 1]
             ELSE [lx EXCEPT !.column = @ + 1, !.position = @ + 1],
             DropFirst(text, 1))

\* Token(type, value, line, column)
Token(ty, val, line, column) ==
    [type |-> ty, value |-> val, line |-> line, column |-> column]

\* the token of a match of rule k on value, starting at line and column
TokenOf(k, value, line, column) ==
    IF rules[k].type = "IDENTIFIER" /\ StartsWith(value, "<")
    THEN Token("ARGUMENT", SubSeq(value, 2, Len(value) - 1), line, column)
    ELSE IF rules[k].type \in {"TYPE", "ATTRIBUTE"}
    THEN Token(rules[k].type, SubSeq(value, 2, Len(value) - 1), line, column)
    ELSE IF rules[k].type = "STRING"
    THEN Token("STRING", _unescape_string(SubSeq(value, 2, Len(value) - 1)),
               line, column)
    ELSE Token(rules[k].type, value, line, column)

\* the text rule k matches at the position of lx
Matched(lx, k) ==
    SubSeq(lx.source, lx.position, lx.position + ReMatch(k, lx.source, lx.position) - 1)

\* the body of the loop of _read_next_token once rule k has matched
Emit(lx, k) ==
    IF rules[k].type = "SKIP"
    THEN _update_position(lx, Matched(lx, k))
    ELSE [_update_position(lx, Matched(lx, k)) EXCEPT
             !.tokens = Append(@, TokenOf(k, Matched(lx, k), lx.line, lx.column))]

\* Lexer._read_next_token, when a rule matches
_read_next_token(lx) == Emit(lx, FirstMatch(lx.source, lx.position))

\* Lexer.__init__ (position is 1-based here)
Lexer(source) ==
    [source |-> source, position |-> 1, line |-> 1, column |-> 1,
     tokens |-> <<>>, error |-> None]

Lexing == pc = "lex" /\ lexer.position <= Len(lexer.source)

\* one iteration of the loop of tokenize: a token or skipped text
ReadNextToken ==
    /\ Lexing
    /\ FirstMatch(lexer.source, lexer.position) # 0
    /\ lexer' = _read_next_token(lexer)
    /\ UNCHANGED <<pc, tokens, position, ast, has_default, has_commands, parser_root>>
    /\ UNCHANGED runnerVars

\* no rule matches: _read_next_token raises SyntaxError with the line, the
\* column and the character, out of tokenize and CLIScriptParser.parse
UnexpectedCharacter ==
    /\ Lexing
    /\ FirstMatch(lexer.source, lexer.position) = 0
    /\ lexer' = [lexer EXCEPT !.error =
                    Some([line |-> lexer.line, column |-> lexer.column,
                          char |-> CharAt(lexer.source, lexer.position)])]
    /\ RaiseSyntaxError
    /\ UNCHANGED <<tokens, position, ast, has_default, has_commands, parser_root>>
    /\ UNCHANGED <<imported_modules, has_default_command, default_command,
                   appname, root_options, root_actions, parser, argv, args,
                   calls, stdout>>

\* the end of tokenize: the EOF token is appended, and Parser(tokens).parse()
\* starts on the list
TokenizeReturn ==
    /\ pc = "lex"
    /\ lexer.position > Len(lexer.source)
    /\ lexer' = [lexer EXCEPT !.tokens = Append(@, Token("EOF", "", lexer.line, lexer.column))]
    /\ tokens' = lexer'.tokens
    /\ pc' = "parse"
    /\ UNCHANGED <<position, ast, has_default, has_commands, parser_root>>
    /\ UNCHANGED runnerVars

LexNext ==
    \/ ReadNextToken
    \/ UnexpectedCharacter
    \/ TokenizeReturn

-----------------------------------------------------------------------------
(* Python values and conversions *)

PyNone == [t |-> "none", v |-> ""]
PyStr(x) == [t |-> "str", v |-> x]
PyInt(n) == [t |-> "int", v |-> n]
PyFloat(whole, frac) == [t |-> "float", v |-> <<whole, frac>>]
PyBool(b) == [t |-> "bool", v |-> b]
PyList(q) == [t |-> "list", v |-> q]
PyFunc(h) == [t |-> "func", v |-> h]

\* dict.get(k, dflt)
Get(d, k, dflt) == IF k \in DOMAIN d THEN d[k] ELSE dflt

UpperCase == "ABCDEFGHIJKLMNOPQRSTUVWXYZ"
LowerCase == "abcdefghijklmnopqrstuvwxyz"

LowerChar(c, k) == IF k = 0 THEN c ELSE CharAt(LowerCase, k)

RECURSIVE Lower(_)
\* str.lower()
Lower(s) ==
    IF Len(s) = 0 THEN ""
    ELSE LowerChar(CharAt(s, 1), Find(UpperCase, CharAt(s, 1), 1))
         \o Lower(DropFirst(s, 1))

\* the value of a decimal digit, -1 for any other character
Digit(c) == Find("0123456789", c, 1) - 1

RECURSIVE DigitsValue(_, _, _)
\* the number a run of decimal digits denotes, -1 when s is empty or holds
\* another character
DigitsValue(s, i, acc) ==
    IF Len(s) = 0 THEN -1
    ELSE IF i > Len(s) THEN acc
    ELSE IF Digit(CharAt(s, i)) < 0 THEN -1
    ELSE DigitsValue(s, i + 1, 10 * acc + Digit(CharAt(s, i)))

Converted(val) == [err |-> FALSE, val |-> val]
ValueError == [err |-> TRUE, val |-> PyNone]

IntOf(sign, n) == IF n < 0 THEN ValueError ELSE Converted(PyInt(sign * n))

\* int(s) for a literal of an optional sign and decimal digits; anything else
\* raises ValueError
ToInt(s) ==
    IF StartsWith(s, "-") THEN IntOf(-1, DigitsValue(DropFirst(s, 1), 1, 0))
    ELSE IF StartsWith(s, "+") THEN IntOf(1, DigitsValue(DropFirst(s, 1), 1, 0))
    ELSE IntOf(1, DigitsValue(s, 1, 0))

RECURSIVE RStripZeros(_)
RStripZeros(s) ==
    IF EndsWith(s, "0") THEN RStripZeros(SubSeq(s, 1, Len(s) - 1)) ELSE s

FloatOf(whole, frac, fracValue) ==
    IF whole < 0 \/ fracValue < 0 THEN ValueError
    ELSE Converted(PyFloat(whole, RStripZeros(frac)))

FloatSplit(s, k) ==
    IF k = 0 THEN FloatOf(DigitsValue(s, 1, 0), "", 0)
    ELSE FloatOf(DigitsValue(SubSeq(s, 1, k - 1), 1, 0), DropFirst(s, k),
                 IF k = Len(s) THEN 0 ELSE DigitsValue(DropFirst(s, k), 1, 0))

\* float(s) for an unsigned literal digits[.digits]; anything else raises
\* ValueError
ToFloat(s) == FloatSplit(s, Find(s, ".", 1))

\* CLIRunner._convert_value
_convert_value(value, data_type) ==
    IF data_type = Some("bool") THEN Converted(PyBool(Lower(value) = "true"))
    ELSE IF data_type = Some("int") THEN ToInt(value)
    ELSE IF data_type = Some("float") THEN ToFloat(value)
    ELSE Converted(PyStr(value))

\* CLIRunner._get_python_type: the converter argparse applies to a value
_get_python_type(data_type) ==
    IF data_type = Some("string") THEN "str"
    ELSE IF data_type = Some("int") THEN "int"
    ELSE IF data_type = Some("float") THEN "float"
    ELSE IF data_type = Some("bool") THEN "bool"
    ELSE "str"

\* argparse's _get_value: the type callable applied to one argument string
\* (bool(s) is true of every non-empty string)
ApplyType(ty, x) ==
    IF ty = "int" THEN ToInt(x)
    ELSE IF ty = "float" THEN ToFloat(x)
    ELSE IF ty = "bool" THEN Converted(PyBool(Len(x) > 0))
    ELSE Converted(PyStr(x))

-----------------------------------------------------------------------------
(* The argparse schema: ArgumentParser, add_argument, add_subparsers *)

HelpAction ==
    [option_strings |-> <<"-h", "--help">>, dest |-> "help", kind |-> "help",
     type |-> "str", default |-> PyNone, nargs |-> "0"]

\* argparse.ArgumentParser(): the -h/--help option, no defaults, no subparsers
ArgumentParser == [actions |-> <<HelpAction>>, func |-> None, subs |-> <<>>]

\* the option strings a parser has registered
AllOptionStrings(P) ==
    UNION { { P.actions[i].option_strings[j] :
                j \in 1..Len(P.actions[i].option_strings) } :
            i \in 1..Len(P.actions) }

Built(P) == [err |-> FALSE, parser |-> P]
BuildError(P) == [err |-> TRUE, parser |-> P]

\* the default of an action when add_argument is given none
ActionDefault(kind) ==
    IF kind = "store_true" THEN PyBool(FALSE)
    ELSE IF kind = "store_false" THEN PyBool(TRUE)
    ELSE PyNone

\* parser.add_argument(*flags, **kw): a positional when no flag is given (and
\* then a TypeError without dest), an optional otherwise (and then an
\* ArgumentError when a flag is already registered)
add_argument(P, flags, kw) ==
    IF flags = <<>>
    THEN IF "dest" \notin DOMAIN kw THEN BuildError(P)
         ELSE Built([P EXCEPT !.actions = Append(@,
                  [option_strings |-> <<>>, dest |-> kw["dest"],
                   kind |-> Get(kw, "action", "store"),
                   type |-> Get(kw, "type", "str"),
                   default |-> Get(kw, "default", PyNone),
                   nargs |-> Get(kw, "nargs", "None")])])
    ELSE IF \E i \in 1..Len(flags) : flags[i] \in AllOptionStrings(P)
    THEN BuildError(P)
    ELSE Built([P EXCEPT !.actions = Append(@,
                  [option_strings |-> flags, dest |-> kw["dest"],
                   kind |-> Get(kw, "action", "store"),
                   type |-> Get(kw, "type", "str"),
                   default |-> Get(kw, "default",
                                   ActionDefault(Get(kw, "action", "store"))),
                   nargs |-> IF Get(kw, "action", "store") = "store"
                             THEN "None" ELSE "0"])])

\* parser.add_argument(name, **kw) for a positional argument
add_positional(P, name, kw) ==
    Built([P EXCEPT !.actions = Append(@,
              [option_strings |-> <<>>, dest |-> name, kind |-> "store",
               type |-> kw["type"], default |-> Get(kw, "default", PyNone),
               nargs |-> Get(kw, "nargs", "None")])])

\* parser.add_subparsers(dest='command'): one positional that takes the
\* command name and everything after it
add_subparsers(P) ==
    [P EXCEPT !.actions = Append(@,
        [option_strings |-> <<>>, dest |-> "command", kind |-> "parsers",
         type |-> "str", default |-> PyNone, nargs |-> "A..."])]

-----------------------------------------------------------------------------
(* CLIRunner._add_option *)

\* the two "for flag in flags" loops of _add_option: the name taken from the
\* flags, and whether the loop left by break (a long flag was found)
RECURSIVE FlagLoop(_, _, _)
FlagLoop(flags, i, dest) ==
    IF i > Len(flags) THEN [dest |-> dest, broke |-> FALSE]
    ELSE IF StartsWith(flags[i], "--")
    THEN [dest |-> Some(Replace(DropFirst(flags[i], 2), "-", "_")), broke |-> TRUE]
    ELSE IF StartsWith(flags[i], "-")
    THEN FlagLoop(flags, i + 1, Some(Replace(DropFirst(flags[i], 1), "-", "_")))
    ELSE FlagLoop(flags, i + 1, dest)

\* "if param_name and data_type != 'bool'"
IsValued(option) ==
    option.param # None /\ option.param # Some("") /\ option.data_type # Some("bool")

\* the else clause of the loop of a parameterized option: without a break the
\* parameter name replaces whatever the loop assigned
ValuedDest(option, loop) == IF loop.broke THEN loop.dest ELSE option.param

\* the else clause of the loop of a flag option: without a break the first
\* flag, stripped of its dashes, replaces whatever the loop assigned
FlagDest(option, loop) ==
    IF loop.broke THEN loop.dest
    ELSE IF option.flags # <<>>
    THEN Some(Replace(LStrip(option.flags[1], "-"), "-", "_"))
    ELSE loop.dest

\* dest_name of _add_option: None or the destination name
OptionDest(option) ==
    IF IsValued(option) THEN ValuedDest(option, FlagLoop(option.flags, 1, None))
    ELSE FlagDest(option, FlagLoop(option.flags, 1, None))

\* a toggle that always stores true: the polarity of C8 does not survive it
AlwaysStoreTrue(option) == "store_true"

\* store_false when the declared default is true, store_true otherwise
BoolAction(option) ==
    IF Lower(Get(option.attributes, "default", "false")) = "true"
    THEN "store_false" ELSE "store_true"

\* kwargs["action"] and kwargs["type"]
TypeKwargs(option) ==
    IF option.data_type = Some("bool") THEN [action |-> BoolAction(option)]
    ELSE IF option.data_type = Some("int") THEN [type |-> "int"]
    ELSE IF option.data_type = Some("float") THEN [type |-> "float"]
    ELSE EmptyDict

\* a default that is kept as the string it was declared as: the failure of
\* C12 at schema-build time does not survive it
RawDefault(option) == Converted(PyStr(option.attributes["default"]))

\* kwargs["default"]: the declared default converted by the option's type
OptionDefault(option) ==
    IF option.data_type = Some("bool")
    THEN Converted(PyBool(Lower(option.attributes["default"]) = "true"))
    ELSE IF option.data_type = Some("int") THEN ToInt(option.attributes["default"])
    ELSE IF option.data_type = Some("float") THEN ToFloat(option.attributes["default"])
    ELSE Converted(PyStr(option.attributes["default"]))

DestKwargs(dest) == IF dest = None THEN EmptyDict ELSE [dest |-> dest[1]]

\* option["_dest_name"] = dest_name, then parser.add_argument(*flags, **kwargs)
RegisterOption(P, option, kw, dest) ==
    add_argument(P, option.flags, kw @@ DestKwargs(dest))
        @@ [option |-> ("_dest_name" :> dest) @@ option]

OptionWithDefault(P, option, d) ==
    IF d.err THEN BuildError(P) @@ [option |-> option]
    ELSE RegisterOption(P, option, TypeKwargs(option) @@ [default |-> d.val],
                        OptionDest(option))

\* the result of _add_option: the parser, the option as the call leaves it, and
\* whether the call raised
_add_option(P, option) ==
    IF "default" \in DOMAIN option.attributes
    THEN OptionWithDefault(P, option, OptionDefault(option))
    ELSE RegisterOption(P, option, TypeKwargs(option), OptionDest(option))

-----------------------------------------------------------------------------
(* CLIRunner._add_argument *)

\* a policy that takes [required] for the cardinality whatever else is
\* declared: the cardinalities of C9 do not survive it
RequiredFirst(argument) ==
    IF Get(argument.attributes, "required", FALSE) = TRUE THEN EmptyDict
    ELSE IF argument.variadic THEN [nargs |-> "*"]
    ELSE [nargs |-> "?"]

\* the cardinality policy of positional arguments
ArgumentNargs(argument) ==
    IF argument.variadic
    THEN IF "default" \in DOMAIN argument.attributes THEN [nargs |-> "*"]
         ELSE [nargs |-> "+"]
    ELSE IF "default" \in DOMAIN argument.attributes THEN [nargs |-> "?"]
    ELSE IF Get(argument.attributes, "required", FALSE) = TRUE THEN EmptyDict
    ELSE [nargs |-> "?"]

ArgumentWithDefault(P, argument, d) ==
    IF d.err THEN BuildError(P)
    ELSE add_positional(P, argument.name,
             [type |-> _get_python_type(argument.data_type), default |-> d.val]
                 @@ ArgumentNargs(argument))

_add_argument(P, argument) ==
    IF "default" \in DOMAIN argument.attributes
    THEN ArgumentWithDefault(P, argument,
             _convert_value(argument.attributes["default"], argument.data_type))
    ELSE add_positional(P, argument.name,
             [type |-> _get_python_type(argument.data_type)]
                 @@ ArgumentNargs(argument))

-----------------------------------------------------------------------------
(* CLIRunner._build_parser *)

RECURSIVE AddOptions(_, _)
\* "for option in options: self._add_option(parser, option)"; st.options is the
\* list, whose elements the calls annotate in place
OptionAdded(st, i, r) ==
    [err |-> r.err, parser |-> r.parser,
     options |-> [st.options EXCEPT ![i] = r.option]]

AddOptions(st, i) ==
    IF st.err \/ i > Len(st.options) THEN st
    ELSE AddOptions(OptionAdded(st, i, _add_option(st.parser, st.options[i])), i + 1)

RECURSIVE AddArguments(_, _, _)
\* "for argument in arguments: self._add_argument(parser, argument)"
AddArguments(st, arguments, i) ==
    IF st.err \/ i > Len(arguments) THEN st
    ELSE AddArguments(_add_argument(st.parser, arguments[i]), arguments, i + 1)

\* CLIRunner._create_command_handler: the closure over action and command_node
_create_command_handler(action, command_node) ==
    [action |-> action, command_node |-> command_node]

\* "if action: parser.set_defaults(func=...)"
SetDefaults(r, node) ==
    IF r.err \/ node.body.action = None THEN r.parser
    ELSE [r.parser EXCEPT
            !.func = Some(_create_command_handler(node.body.action[1], node))]

WithOptions(node, options) == [node EXCEPT !.body.options = options]

CommandBuilt(node, r2, r3) ==
    [err |-> r3.err, node |-> WithOptions(node, r2.options),
     parser |-> SetDefaults(r3, WithOptions(node, r2.options))]

CommandArguments(node, r2) ==
    CommandBuilt(node, r2,
        AddArguments([err |-> r2.err, parser |-> r2.parser], node.body.arguments, 1))

\* the options, arguments and handler of one command (or of the default
\* command) added to parser P
CommandInto(P, node) ==
    CommandArguments(node,
        AddOptions([err |-> FALSE, parser |-> P, options |-> node.body.options], 1))

SubparserNames(P) == { P.subs[i].name : i \in 1..Len(P.subs) }

\* CLIRunner._add_command: add_parser raises on a name already registered
_add_command(P, node) ==
    IF node.name \in SubparserNames(P)
    THEN [err |-> TRUE, node |-> node, parser |-> ArgumentParser]
    ELSE CommandInto(ArgumentParser, node)

\* the indexes of the nodes of a type, in AST order
RECURSIVE NodesOfType(_, _, _)
NodesOfType(tree, ty, i) ==
    IF i > Len(tree) THEN <<>>
    ELSE (IF tree[i].type = ty THEN <<i>> ELSE <<>>) \o NodesOfType(tree, ty, i + 1)

CommandAdded(st, i, r) ==
    [err |-> r.err,
     parser |-> [st.parser EXCEPT
                   !.subs = Append(@, [name |-> r.node.name, parser |-> r.parser])],
     nodes |-> (i :> r.node) @@ st.nodes]

RECURSIVE AddCommands(_, _, _, _)
\* "for node in commands: self._add_command(node)"
AddCommands(tree, st, commands, k) ==
    IF st.err \/ k > Len(commands) THEN st
    ELSE AddCommands(tree,
             CommandAdded(st, commands[k], _add_command(st.parser, tree[commands[k]])),
             commands, k + 1)

\* the else branch of _build_parser once the root options are added
MultiCommands(tree, r1, commands) ==
    IF r1.err \/ commands = <<>>
    THEN [err |-> r1.err, parser |-> r1.parser, nodes |-> EmptyDict]
    ELSE AddCommands(tree,
             [err |-> FALSE, parser |-> add_subparsers(r1.parser), nodes |-> EmptyDict],
             commands, 1)

DefaultBuilt(i, c) == [err |-> c.err, parser |-> c.parser, nodes |-> (i :> c.node)]

\* the then branch of _build_parser once the root options are added
DefaultCommand(r1, node, i) ==
    IF r1.err THEN [err |-> TRUE, parser |-> r1.parser, nodes |-> EmptyDict]
    ELSE DefaultBuilt(i, CommandInto(r1.parser, node))

BuildResult(r1, rc) ==
    [err |-> rc.err, parser |-> rc.parser, root |-> r1.options, nodes |-> rc.nodes]

BuildCommands(tree, has_default_, r1) ==
    BuildResult(r1,
        IF has_default_
        THEN DefaultCommand(r1, tree[NodesOfType(tree, "default", 1)[1]],
                            NodesOfType(tree, "default", 1)[1])
        ELSE MultiCommands(tree, r1, NodesOfType(tree, "command", 1)))

\* the result of _build_parser: the parser, the root options and the command
\* nodes as annotated, and whether it raised
_build_parser(tree, has_default_, roots) ==
    BuildCommands(tree, has_default_,
        AddOptions([err |-> FALSE, parser |-> ArgumentParser, options |-> roots], 1))

\* the AST after _build_parser: the nodes are shared with the runner, so the
\* annotations show in the tree
Annotated(tree, b) ==
    [i \in DOMAIN tree |->
        IF i \in DOMAIN b.nodes THEN b.nodes[i]
        ELSE IF NodesOfType(tree, "root_options", 1) # <<>>
                /\ i = NodesOfType(tree, "root_options", 1)[1]
        THEN [tree[i] EXCEPT !.options = b.root]
        ELSE tree[i]]

-----------------------------------------------------------------------------
(* argparse: parse_args.  The words of argv are option strings, prefixes of  *)
(* option strings and plain words; "--", "--opt=value" and "-ovalue" are not *)
(* among them.                                                               *)

\* the action an option string belongs to
ActionOf(P, w) ==
    CHOOSE i \in 1..Len(P.actions) :
        \E j \in 1..Len(P.actions[i].option_strings) :
            P.actions[i].option_strings[j] = w

\* _get_option_tuples: the option strings the word abbreviates
PrefixMatches(P, w) == { o \in AllOptionStrings(P) : StartsWith(o, w) }

ByPrefix(P, m) ==
    IF Cardinality(m) > 1 THEN -2
    ELSE IF Cardinality(m) = 1 THEN ActionOf(P, CHOOSE o \in m : TRUE)
    ELSE -1

\* _parse_optional: 0 for an argument ('A'), the index of its action for an
\* option ('O'), -1 for an option the parser does not know, -2 for an
\* ambiguous abbreviation (an error)
Classify(P, w) ==
    IF ~StartsWith(w, "-") THEN 0
    ELSE IF w \in AllOptionStrings(P) THEN ActionOf(P, w)
    ELSE IF Len(w) = 1 THEN 0
    ELSE ByPrefix(P, PrefixMatches(P, w))

\* arg_strings_pattern
Pattern(P, av) == [i \in 1..Len(av) |-> Classify(P, av[i])]

RECURSIVE Lead(_, _)
\* the number of arguments ('A') in a row from index i
Lead(pat, i) ==
    IF i > Len(pat) \/ pat[i] # 0 THEN 0 ELSE 1 + Lead(pat, i + 1)

\* max(option_string_indices), 0 when there is no option
MaxOption(pat) ==
    IF \E i \in 1..Len(pat) : pat[i] # 0
    THEN CHOOSE i \in 1..Len(pat) :
            pat[i] # 0 /\ \A j \in (i + 1)..Len(pat) : pat[j] = 0
    ELSE 0

\* the index of the first option at or after i
NextOption(pat, i) ==
    CHOOSE k \in i..Len(pat) : pat[k] # 0 /\ \A j \in i..(k - 1) : pat[j] = 0

NoMatch == <<-1>>

MinArgs(nargs) == IF nargs \in {"None", "+"} THEN 1 ELSE 0

MaxArgs(nargs, lead) ==
    IF nargs \in {"None", "?"} THEN (IF lead >= 1 THEN 1 ELSE 0) ELSE lead

RECURSIVE MatchGroups(_, _, _, _)
RECURSIVE TryCount(_, _, _, _, _)

\* the regular expression of a list of positionals matched at the start of the
\* pattern: how many arguments each takes, greedily, or NoMatch.  lead is the
\* number of arguments before the next option, rest the length of the pattern.
\* The sub-command positional ('A...') takes everything and is the last one.
TryRest(nargs, j, lead, rest, c, m) ==
    IF m = NoMatch THEN TryCount(nargs, j, lead, rest, c - 1) ELSE <<c>> \o m

TryCount(nargs, j, lead, rest, c) ==
    IF c < MinArgs(nargs[j]) THEN NoMatch
    ELSE TryRest(nargs, j, lead, rest, c,
                 MatchGroups(nargs, j + 1, lead - c, rest - c))

MatchGroups(nargs, j, lead, rest) ==
    IF j > Len(nargs) THEN <<>>
    ELSE IF nargs[j] = "A..."
    THEN (IF lead >= 1 /\ j = Len(nargs) THEN <<rest>> ELSE NoMatch)
    ELSE TryCount(nargs, j, lead, rest, MaxArgs(nargs[j], lead))

RECURSIVE _match_arguments_partial(_, _, _, _)
TryPrefix(nargs, lead, rest, i, m) ==
    IF m = NoMatch THEN _match_arguments_partial(nargs, lead, rest, i - 1) ELSE m

\* the counts of the longest list of leading positionals that matches
_match_arguments_partial(nargs, lead, rest, i) ==
    IF i = 0 THEN <<>>
    ELSE TryPrefix(nargs, lead, rest, i,
                   MatchGroups(SubSeq(nargs, 1, i), 1, lead, rest))

RECURSIVE ConvertAll(_, _, _, _)
ConvertNext(ty, strs, i, acc, c) ==
    IF c.err THEN ValueError ELSE ConvertAll(ty, strs, i + 1, Append(acc, c.val))

\* [self._get_value(action, v) for v in arg_strings]
ConvertAll(ty, strs, i, acc) ==
    IF i > Len(strs) THEN Converted(PyList(acc))
    ELSE ConvertNext(ty, strs, i, acc, ApplyType(ty, strs[i]))

\* _get_values for a positional.  A declared default is already of the
\* argument's type, so converting it again changes nothing.
_get_values(a, strs) ==
    IF strs = <<>> /\ a.nargs = "?" THEN Converted(a.default)
    ELSE IF strs = <<>> /\ a.nargs = "*"
    THEN Converted(IF a.default.t # "none" THEN a.default ELSE PyList(<<>>))
    ELSE IF a.nargs \in {"None", "?"} THEN ApplyType(a.type, strs[1])
    ELSE ConvertAll(a.type, strs, 1, <<>>)

Failed(ps) == [ps EXCEPT !.status = "error"]

\* the store action: setattr(namespace, dest, values)
Stored(ps, dest, c, next) ==
    IF c.err THEN Failed(ps)
    ELSE [ps EXCEPT !.ns = (dest :> c.val) @@ @, !.start = next]

RECURSIVE parse_known_args(_, _)

Subparser(P, name) ==
    P.subs[CHOOSE i \in 1..Len(P.subs) : P.subs[i].name = name].parser

\* _SubParsersAction.__call__ once the sub-parser has parsed the rest: its
\* whole namespace is copied over the caller's
SubParsed(ps, name, next, r) ==
    IF r.status # "run" THEN [ps EXCEPT !.status = r.status]
    ELSE [ps EXCEPT !.ns = r.ns @@ (("command" :> PyStr(name)) @@ @),
                    !.extras = @ + r.extras, !.start = next]

\* take_action for a positional
TakePositional(P, ps, a, strs) ==
    IF a.kind # "parsers"
    THEN Stored(ps, a.dest, _get_values(a, strs), ps.start + Len(strs))
    ELSE IF strs[1] \notin SubparserNames(P) THEN Failed(ps)
    ELSE SubParsed(ps, strs[1], ps.start + Len(strs),
                   parse_known_args(Subparser(P, strs[1]), Tail(strs)))

RECURSIVE TakeAll(_, _, _, _, _)
TakeAll(P, av, ps, counts, k) ==
    IF ps.status # "run" \/ k > Len(counts) THEN ps
    ELSE TakeAll(P, av,
             TakePositional(P, ps, ps.positionals[k],
                            SubSeq(av, ps.start, ps.start + counts[k] - 1)),
             counts, k + 1)

Consumed(ps, n) == [ps EXCEPT !.positionals = SubSeq(@, n + 1, Len(@))]

PositionalsMatched(P, av, ps, counts) ==
    Consumed(TakeAll(P, av, ps, counts, 1), Len(counts))

\* consume_positionals
consume_positionals(P, av, pat, ps) ==
    PositionalsMatched(P, av, ps,
        _match_arguments_partial(
            [k \in 1..Len(ps.positionals) |-> ps.positionals[k].nargs],
            Lead(pat, ps.start), Len(av) - ps.start + 1, Len(ps.positionals)))

\* take_action for an option whose action is a
TakeOptional(av, pat, ps, i, a) ==
    IF a.kind = "help" THEN [ps EXCEPT !.status = "help"]
    ELSE IF a.kind = "store_true"
    THEN Stored(ps, a.dest, Converted(PyBool(TRUE)), i + 1)
    ELSE IF a.kind = "store_false"
    THEN Stored(ps, a.dest, Converted(PyBool(FALSE)), i + 1)
    ELSE IF Lead(pat, i + 1) = 0 THEN Failed(ps)
    ELSE Stored(ps, a.dest, ApplyType(a.type, av[i + 1]), i + 2)

\* consume_optional at index i
consume_optional(P, av, pat, ps, i) ==
    IF pat[i] = -1 THEN [ps EXCEPT !.extras = @ + 1, !.start = i + 1]
    ELSE TakeOptional(av, pat, ps, i, P.actions[pat[i]])

\* the rest of one iteration of the loop after consume_positionals
StepAfter(P, av, pat, ps, next, ps1) ==
    IF ps1.status # "run" \/ ps1.start > ps.start THEN ps1
    ELSE consume_optional(P, av, pat,
             [ps1 EXCEPT !.extras = @ + (next - ps.start)], next)

StepAt(P, av, pat, ps, next) ==
    IF ps.start # next
    THEN StepAfter(P, av, pat, ps, next, consume_positionals(P, av, pat, ps))
    ELSE consume_optional(P, av, pat, ps, next)

RECURSIVE Alternate(_, _, _, _)
\* "while start_index <= max_option_string_index"
Alternate(P, av, pat, ps) ==
    IF ps.status # "run" \/ ps.start > MaxOption(pat) THEN ps
    ELSE Alternate(P, av, pat, StepAt(P, av, pat, ps, NextOption(pat, ps.start)))

\* a positional the command line must supply
Required(a) == a.nargs \in {"None", "+"}

\* the extras and the required-arguments check that end _parse_known_args
Finished(av, ps) ==
    IF ps.status # "run" THEN ps
    ELSE IF \E k \in 1..Len(ps.positionals) : Required(ps.positionals[k])
    THEN Failed(ps)
    ELSE [ps EXCEPT !.extras = @ + (Len(av) - ps.start + 1)]

AfterLoop(P, av, pat, ps) ==
    IF ps.status # "run" THEN ps
    ELSE Finished(av, consume_positionals(P, av, pat, ps))

RECURSIVE Positionals(_, _)
\* _get_positional_actions
Positionals(P, i) ==
    IF i > Len(P.actions) THEN <<>>
    ELSE (IF P.actions[i].option_strings = <<>> THEN <<P.actions[i]>> ELSE <<>>)
         \o Positionals(P, i + 1)

\* the namespace before parsing: each destination's first default, then the
\* parser-level default func
Defaults(P) ==
    [d \in { P.actions[i].dest : i \in { k \in 1..Len(P.actions) :
                                            P.actions[k].kind # "help" } } |->
        P.actions[CHOOSE i \in 1..Len(P.actions) :
            /\ P.actions[i].kind # "help" /\ P.actions[i].dest = d
            /\ \A j \in 1..(i - 1) :
                   P.actions[j].kind = "help" \/ P.actions[j].dest # d].default]

Namespace(P) ==
    IF P.func = None THEN Defaults(P)
    ELSE Defaults(P) @@ [func |-> PyFunc(P.func[1])]

Classified(P, av, pat) ==
    IF \E i \in 1..Len(pat) : pat[i] = -2
    THEN [status |-> "error", ns |-> Namespace(P), positionals |-> <<>>,
          start |-> 1, extras |-> 0]
    ELSE AfterLoop(P, av, pat,
             Alternate(P, av, pat,
                 [status |-> "run", ns |-> Namespace(P),
                  positionals |-> Positionals(P, 1), start |-> 1, extras |-> 0]))

\* ArgumentParser.parse_known_args: status "run" when it returned, "error"
\* when it exited with status 2, "help" when it printed the help and exited
parse_known_args(P, av) == Classified(P, av, Pattern(P, av))

Unrecognized(r) == IF r.status = "run" /\ r.extras > 0 THEN Failed(r) ELSE r

\* ArgumentParser.parse_args: unrecognized arguments are an error
parse_args(P, av) == Unrecognized(parse_known_args(P, av))

-----------------------------------------------------------------------------
(* The host environment: what importlib finds and what the base module holds *)

\* the modules importlib.import_module can load
Importable == {"hostmod"}

\* the names on which importlib.import_module raises an exception that is not
\* an ImportError: the empty name (ValueError), a relative name (TypeError)
Malformed(name) == name = "" \/ StartsWith(name, ".")

\* the attribute paths that exist under the base module
Attributes == {"pkg", "pkg.say", "pkg.version", "pkg.notfn", "show", "other"}

\* those whose object is callable
Callables == Attributes \ {"pkg.notfn"}

\* how a call of a host function can end: it returns None, returns a value
\* (which is printed), or raises
Outcomes == {"none", "value", "raise"}

-----------------------------------------------------------------------------
(* CLIRunner: functions and their keyword arguments *)

RECURSIVE Walk(_, _, _)
\* the hasattr/getattr walk of _get_function; cur is the path reached so far
Walk(parts, i, cur) ==
    IF i > Len(parts) THEN cur \in Callables
    ELSE IF (IF cur = "" THEN parts[i] ELSE cur \o "." \o parts[i]) \in Attributes
    THEN Walk(parts, i + 1, IF cur = "" THEN parts[i] ELSE cur \o "." \o parts[i])
    ELSE FALSE

\* CLIRunner._get_function: TRUE when a callable is found
_get_function(modules, function_path) ==
    modules # <<>> /\ Walk(Split(function_path, "."), 1, "")

\* "if param.startswith('$'): var_name = param[1:]"
VarName(param) == IF StartsWith(param, "$") THEN DropFirst(param, 1) ELSE param

\* the destination name _prepare_function_args derives for an option
MarshalDest(option, loop) ==
    IF IsValued(option)
    THEN (IF loop.dest = None \/ loop.dest = Some("") THEN option.param ELSE loop.dest)
    ELSE loop.dest

\* the second look-up of _prepare_function_args: the first option whose derived
\* name is the variable is read from the namespace under that name
SecondLookup(ns, var, options, value) ==
    IF value.t = "none"
       /\ \E i \in 1..Len(options) :
              MarshalDest(options[i], FlagLoop(options[i].flags, 1, None)) = Some(var)
    THEN Get(ns, var, PyNone)
    ELSE value

IsVariadic(var, arguments) ==
    \E i \in 1..Len(arguments) : arguments[i].name = var /\ arguments[i].variadic

\* "if is_variadic and value is not None and not isinstance(value, list)"
Wrapped(is_variadic, value) ==
    IF is_variadic /\ value.t # "none" /\ value.t # "list" THEN PyList(<<value>>)
    ELSE value

FunctionArg(ns, var, body) ==
    Wrapped(IsVariadic(var, body.arguments),
            SecondLookup(ns, var, body.options, Get(ns, var, PyNone)))

\* CLIRunner._prepare_function_args
_prepare_function_args(ns, params, command_node) ==
    [var \in { VarName(params[i]) : i \in 1..Len(params) } |->
        FunctionArg(ns, var, command_node.body)]

\* CLIRunner._prepare_root_option_args
_prepare_root_option_args(ns, params) ==
    [var \in { VarName(params[i]) : i \in 1..Len(params) } |-> Get(ns, var, PyNone)]

\* "value != default_value" for the declared default, a string
DiffersFrom(value, default_value) == value.t # "str" \/ value.v # default_value

\* should_execute of _execute_command
ShouldExecute(option, value) ==
    IF option.data_type = Some("bool") THEN value.t = "bool" /\ value.v
    ELSE /\ value.t # "none"
         /\ \/ "default" \notin DOMAIN option.attributes
            \/ DiffersFrom(value, option.attributes["default"])

\* the condition under which the loop of _execute_command runs an option's action
Fires(option, ns) ==
    /\ Get(option, "_dest_name", None) \notin {None, Some("")}
    /\ option["_dest_name"][1] \in DOMAIN ns
    /\ ShouldExecute(option, ns[option["_dest_name"][1]])
    /\ "action" \in DOMAIN option

\* the first root option whose action the loop runs, 0 when there is none
FirstFiring(options, ns) ==
    IF \E i \in 1..Len(options) : Fires(options[i], ns)
    THEN CHOOSE i \in 1..Len(options) :
            Fires(options[i], ns) /\ \A j \in 1..(i - 1) : ~Fires(options[j], ns)
    ELSE 0

RECURSIVE RemovePy(_)
\* str.replace('.py', '')
RemovePy(s) ==
    IF Len(s) = 0 THEN ""
    ELSE IF StartsWith(s, ".py") THEN RemovePy(DropFirst(s, 3))
    ELSE CharAt(s, 1) \o RemovePy(DropFirst(s, 1))

-----------------------------------------------------------------------------
(* CLIRunner.run: one action per method it calls *)

RECURSIVE ImportAll(_, _, _)
\* the loop of _import_modules: the modules loaded, in insertion order, the
\* errors reported, and whether an import raised what the loop does not catch
ImportAll(tree, i, st) ==
    IF i > Len(tree) THEN st
    ELSE IF tree[i].type # "use" THEN ImportAll(tree, i + 1, st)
    ELSE IF Malformed(RemovePy(tree[i].module)) THEN [st EXCEPT !.raised = TRUE]
    ELSE IF RemovePy(tree[i].module) \in Importable
    THEN ImportAll(tree, i + 1,
             [st EXCEPT !.modules =
                 IF \E k \in 1..Len(@) : @[k] = RemovePy(tree[i].module)
                 THEN @ ELSE Append(@, RemovePy(tree[i].module))])
    ELSE ImportAll(tree, i + 1,
             [st EXCEPT !.errors = Append(@, "Error: Could not import module")])

\* an exception that is not an ImportError leaves the loop and is reported by
\* run(), which exits with status 1
Imported(r) ==
    /\ imported_modules' = r.modules
    /\ IF r.raised
       THEN /\ stderr' = Append(stderr \o r.errors, "Error:")
            /\ exit_code' = Some(1)
            /\ pc' = "done"
       ELSE /\ stderr' = stderr \o r.errors
            /\ pc' = "run_check_default"
            /\ UNCHANGED exit_code

ImportModules ==
    /\ pc = "run_import"
    /\ Imported(ImportAll(ast, 1, [modules |-> imported_modules, errors |-> <<>>,
                                   raised |-> FALSE]))
    /\ UNCHANGED <<parserVars, has_default_command, default_command, appname,
                   root_options, root_actions, parser, argv, args, calls, stdout>>

FoundDefault(found) ==
    IF found = <<>> THEN UNCHANGED <<has_default_command, default_command>>
    ELSE /\ has_default_command' = TRUE
         /\ default_command' = Some(ast[found[1]])

CheckDefaultCommand ==
    /\ pc = "run_check_default"
    /\ FoundDefault(NodesOfType(ast, "default", 1))
    /\ pc' = "run_find_appname"
    /\ UNCHANGED <<parserVars, imported_modules, appname, root_options,
                   root_actions, parser, argv, args, calls, stderr, stdout,
                   exit_code>>

FoundAppname(found) ==
    IF found = <<>> THEN UNCHANGED appname ELSE appname' = ast[found[1]].name

FindAppname ==
    /\ pc = "run_find_appname"
    /\ FoundAppname(NodesOfType(ast, "appname", 1))
    /\ pc' = "run_find_root"
    /\ UNCHANGED <<parserVars, imported_modules, has_default_command,
                   default_command, root_options, root_actions, parser, argv,
                   args, calls, stderr, stdout, exit_code>>

RECURSIVE RootActions(_, _, _)
\* the map from an option's first flag, dashes stripped, to its action
RootActions(options, i, acts) ==
    IF i > Len(options) THEN acts
    ELSE IF "action" \in DOMAIN options[i] /\ options[i].flags # <<>>
    THEN RootActions(options, i + 1,
             DictSet(acts, LStrip(options[i].flags[1], "-"), options[i].action))
    ELSE RootActions(options, i + 1, acts)

FoundRootOptions(found) ==
    IF found = <<>> THEN UNCHANGED <<root_options, root_actions>>
    ELSE /\ root_options' = ast[found[1]].options
         /\ root_actions' = RootActions(ast[found[1]].options, 1, root_actions)

FindRootOptions ==
    /\ pc = "run_find_root"
    /\ FoundRootOptions(NodesOfType(ast, "root_options", 1))
    /\ pc' = "run_build"
    /\ UNCHANGED <<parserVars, imported_modules, has_default_command,
                   default_command, appname, parser, argv, args, calls, stderr,
                   stdout, exit_code>>

\* run() reports an exception of the method and exits with status 1
RunFailed ==
    /\ stderr' = Append(stderr, "Error:")
    /\ exit_code' = Some(1)
    /\ pc' = "done"

\* the option dicts are shared by the AST, the Parser's root_options and the
\* runner's root_options: the annotation of one shows in all
ParserBuilt(b) ==
    /\ parser' = Some(b.parser)
    /\ root_options' = b.root
    /\ parser_root' = b.root
    /\ ast' = Annotated(ast, b)
    /\ default_command' =
           IF has_default_command
           THEN Some(Annotated(ast, b)[NodesOfType(ast, "default", 1)[1]])
           ELSE default_command
    /\ IF b.err THEN RunFailed
       ELSE pc' = "run_execute" /\ UNCHANGED <<stderr, exit_code>>

BuildParser ==
    /\ pc = "run_build"
    /\ ParserBuilt(_build_parser(ast, has_default_command, root_options))
    /\ UNCHANGED <<lexer, tokens, position, has_default, has_commands,
                   imported_modules, has_default_command, appname, root_actions,
                   argv, args, calls, stdout>>

\* the longest command line
MaxArgv == 3

\* the words a command line is made of: the option strings and command names
\* of the schema (of the two help flags the short one) and two values
Words(P) ==
    (AllOptionStrings(P) \cup SubparserNames(P) \cup {"w", "5"}
        \cup UNION { AllOptionStrings(P.subs[i].parser) : i \in 1..Len(P.subs) })
    \ {"--help"}

Parsed(r) ==
    IF r.status = "error"
    THEN /\ stderr' = Append(stderr, "usage")
         /\ exit_code' = Some(2)
         /\ pc' = "done"
         /\ UNCHANGED <<args, stdout>>
    ELSE IF r.status = "help"
    THEN /\ stdout' = Append(stdout, "help")
         /\ exit_code' = Some(0)
         /\ pc' = "done"
         /\ UNCHANGED <<args, stderr>>
    ELSE /\ args' = Some(r.ns)
         /\ pc' = "root_options"
         /\ UNCHANGED <<stdout, stderr, exit_code>>

\* "args = self.parser.parse_args()": the command line is read here
ParseArgs ==
    /\ pc = "run_execute"
    /\ \E av \in SeqsUpTo(Words(parser[1]), MaxArgv) :
          /\ argv' = av
          /\ Parsed(parse_args(parser[1], av))
    /\ UNCHANGED <<parserVars, imported_modules, has_default_command,
                   default_command, appname, root_options, root_actions, parser,
                   calls>>

\* func(**func_args), "if result is not None: print(result)"; site is the index
\* of the root option whose action is called, 0 for a command's action
Called(function, kwargs, outcome, site) ==
    /\ calls' = Append(calls, [function |-> function, kwargs |-> kwargs,
                               site |-> site])
    /\ stdout' = IF outcome = "value" THEN Append(stdout, "result") ELSE stdout

\* the action of root option o: sys.exit(0) after the call, sys.exit(1) when it
\* raises or when the function is not found
CallRootOption(o, i) ==
    IF _get_function(imported_modules, o.action.function)
    THEN \E outcome \in Outcomes :
            /\ Called(o.action.function,
                      _prepare_root_option_args(args[1], o.action.params),
                      outcome, i)
            /\ stderr' = IF outcome = "raise"
                         THEN Append(stderr, "Error executing root option")
                         ELSE stderr
            /\ exit_code' = Some(IF outcome = "raise" THEN 1 ELSE 0)
    ELSE /\ stderr' = Append(stderr, "Error: Function not found")
         /\ exit_code' = Some(1)
         /\ UNCHANGED <<calls, stdout>>

\* the loop over the root options reaches an option whose action it runs
ExecuteRootOption ==
    /\ pc = "root_options"
    /\ FirstFiring(root_options, args[1]) # 0
    /\ CallRootOption(root_options[FirstFiring(root_options, args[1])],
                      FirstFiring(root_options, args[1]))
    /\ pc' = "done"
    /\ UNCHANGED <<parserVars, imported_modules, has_default_command,
                   default_command, appname, root_options, root_actions, parser,
                   argv, args>>

\* the loop over the root options ends without running an action
NoRootOption ==
    /\ pc = "root_options"
    /\ FirstFiring(root_options, args[1]) = 0
    /\ pc' = "dispatch"
    /\ UNCHANGED <<parserVars, runnerVars>>

\* command_handler(args): a function that is not found is reported, an
\* exception of the call is reported; either way the handler returns
command_handler(h) ==
    IF _get_function(imported_modules, h.action.function)
    THEN \E outcome \in Outcomes :
            /\ Called(h.action.function,
                      _prepare_function_args(args[1], h.action.params, h.command_node),
                      outcome, 0)
            /\ stderr' = IF outcome = "raise"
                         THEN Append(stderr, "Error executing command")
                         ELSE stderr
    ELSE /\ stderr' = Append(stderr, "Error: Function not found")
         /\ UNCHANGED <<calls, stdout>>

\* "if hasattr(args, 'func'): args.func(args)", then run() returns
ExecuteCommand ==
    /\ pc = "dispatch"
    /\ "func" \in DOMAIN args[1]
    /\ IF args[1]["func"].t = "func"
       THEN command_handler(args[1]["func"].v) /\ exit_code' = Some(0) /\ pc' = "done"
       ELSE RunFailed /\ UNCHANGED <<calls, stdout>>
    /\ UNCHANGED <<parserVars, imported_modules, has_default_command,
                   default_command, appname, root_options, root_actions, parser,
                   argv, args>>

\* no handler in a multi-command program: self.parser.print_help()
PrintHelp ==
    /\ pc = "dispatch"
    /\ "func" \notin DOMAIN args[1]
    /\ ~has_default_command
    /\ stdout' = Append(stdout, "help")
    /\ exit_code' = Some(0)
    /\ pc' = "done"
    /\ UNCHANGED <<parserVars, imported_modules, has_default_command,
                   default_command, appname, root_options, root_actions, parser,
                   argv, args, calls, stderr>>

\* no handler in a default-command program: nothing is done
NoHandler ==
    /\ pc = "dispatch"
    /\ "func" \notin DOMAIN args[1]
    /\ has_default_command
    /\ exit_code' = Some(0)
    /\ pc' = "done"
    /\ UNCHANGED <<parserVars, imported_modules, has_default_command,
                   default_command, appname, root_options, root_actions, parser,
                   argv, args, calls, stderr, stdout>>

RunNext ==
    \/ ImportModules
    \/ CheckDefaultCommand
    \/ FindAppname
    \/ FindRootOptions
    \/ BuildParser
    \/ ParseArgs
    \/ ExecuteRootOption
    \/ NoRootOption
    \/ ExecuteCommand
    \/ PrintHelp
    \/ NoHandler

Next == ParseNext \/ RunNext

-----------------------------------------------------------------------------
(* Programs: token lists as the lexer produces them, one definition per line *)

NL == Tok("NEWLINE", "\n")

Identifier(name) == Tok("IDENTIFIER", name)

\* -> name()
Arrow(name) ==
    <<Tok("ARROW", "->"), Identifier(name), Tok("LPAREN", "("), Tok("RPAREN", ")")>>

\* -> name($p)
ArrowWith(name, p) ==
    <<Tok("ARROW", "->"), Identifier(name), Tok("LPAREN", "("), Tok("DOLLAR", "$"),
      Identifier(p), Tok("RPAREN", ")")>>

\* appname "T"
AppnameLine == <<Tok("APPNAME", "appname"), Tok("STRING", "T"), NL>>

\* use "<module>"
UseLine(module) == <<Tok("USE", "use"), Tok("STRING", module), NL>>

\* root -v [bool] "verbose" -> pkg.version()
RootVersion ==
    <<Tok("ROOT", "root"), Tok("FLAG", "-v"), Tok("TYPE", "bool"),
      Tok("STRING", "verbose")>> \o Arrow("pkg.version") \o <<NL>>

\* root -u, --update <ver> [string] [default:w] -> show($update)
RootUpdate ==
    <<Tok("ROOT", "root"), Tok("FLAG", "-u"), Tok("COMMA", ","),
      Tok("FLAG", "--update"), Tok("ARGUMENT", "ver"), Tok("TYPE", "string"),
      Tok("ATTRIBUTE", "default:w")>> \o ArrowWith("show", "update") \o <<NL>>

\* root --num <num> [int] [default:5] -> other($num)
RootNum ==
    <<Tok("ROOT", "root"), Tok("FLAG", "--num"), Tok("ARGUMENT", "num"),
      Tok("TYPE", "int"), Tok("ATTRIBUTE", "default:5")>>
        \o ArrowWith("other", "num") \o <<NL>>

\* root -x [bool] -> missing()
RootMissing ==
    <<Tok("ROOT", "root"), Tok("FLAG", "-x"), Tok("TYPE", "bool")>>
        \o Arrow("missing") \o <<NL>>

\* root -q [bool] [default:true]
RootQuiet ==
    <<Tok("ROOT", "root"), Tok("FLAG", "-q"), Tok("TYPE", "bool"),
      Tok("ATTRIBUTE", "default:true"), NL>>

\* root -q [bool] [default:true] -> show()
RootQuietShow ==
    <<Tok("ROOT", "root"), Tok("FLAG", "-q"), Tok("TYPE", "bool"),
      Tok("ATTRIBUTE", "default:true")>> \o Arrow("show") \o <<NL>>

\* root
\*   -v [bool] "verbose" -> pkg.version()
RootAlone ==
    <<Tok("ROOT", "root"), NL, Tok("FLAG", "-v"), Tok("TYPE", "bool"),
      Tok("STRING", "verbose")>> \o Arrow("pkg.version") \o <<NL>>

\* cmd hello "say hi"
\*   <name> [string]
\*   -> pkg.say($name)
CmdHello ==
    <<Tok("CMD", "cmd"), Identifier("hello"), Tok("STRING", "say hi"), NL,
      Tok("ARGUMENT", "name"), Tok("TYPE", "string"), NL>>
        \o ArrowWith("pkg.say", "name") \o <<NL>>

\* cmd bad
\*   -> pkg.notfn()
CmdBad == <<Tok("CMD", "cmd"), Identifier("bad"), NL>> \o Arrow("pkg.notfn") \o <<NL>>

\* cmd greet "g"
\*   -f, --force [bool]
\*   -k [bool] [default:true]
\*   <who> [required]
\*   -> show($who)
CmdGreet ==
    <<Tok("CMD", "cmd"), Identifier("greet"), Tok("STRING", "g"), NL,
      Tok("FLAG", "-f"), Tok("COMMA", ","), Tok("FLAG", "--force"),
      Tok("TYPE", "bool"), NL,
      Tok("FLAG", "-k"), Tok("TYPE", "bool"), Tok("ATTRIBUTE", "default:true"), NL,
      Tok("ARGUMENT", "who"), Tok("ATTRIBUTE", "required"), NL>>
        \o ArrowWith("show", "who") \o <<NL>>

\* cmd copy
\*   <files...>
\*   -> show($files)
CmdCopy ==
    <<Tok("CMD", "cmd"), Identifier("copy"), NL, Tok("ARGUMENT", "files..."), NL>>
        \o ArrowWith("show", "files") \o <<NL>>

\* cmd list
\*   <x...> [default:d]
\*   <x>
\*   -> show($x)
CmdList ==
    <<Tok("CMD", "cmd"), Identifier("list"), NL,
      Tok("ARGUMENT", "x..."), Tok("ATTRIBUTE", "default:d"), NL,
      Tok("ARGUMENT", "x"), NL>> \o ArrowWith("show", "x") \o <<NL>>

\* default "d"
\*   <files...> [int] [default:5]
\*   -> show($files)
DefaultFiles ==
    <<Tok("DEFAULT", "default"), Tok("STRING", "d"), NL,
      Tok("ARGUMENT", "files..."), Tok("TYPE", "int"),
      Tok("ATTRIBUTE", "default:5"), NL>> \o ArrowWith("show", "files") \o <<NL>>

\* default "d"
\*   -j [bool] [default:false]
DefaultBare ==
    <<Tok("DEFAULT", "default"), Tok("STRING", "d"), NL,
      Tok("FLAG", "-j"), Tok("TYPE", "bool"), Tok("ATTRIBUTE", "default:false"), NL>>

\* the most root declarations in a program
MaxRoot == 2

RootMenu == {RootVersion, RootUpdate, RootNum, RootMissing, RootQuiet}

RECURSIVE Flatten(_)
Flatten(lines) == IF lines = <<>> THEN <<>> ELSE Head(lines) \o Flatten(Tail(lines))

\* the lists of at most n different root declarations
RootLists(n) ==
    { q \in SeqsUpTo(RootMenu, n) : \A i, j \in 1..Len(q) : i # j => q[i] # q[j] }

\* root -u, --update <ver> [string] -> show($ver)
RootByParam ==
    <<Tok("ROOT", "root"), Tok("FLAG", "-u"), Tok("COMMA", ","),
      Tok("FLAG", "--update"), Tok("ARGUMENT", "ver"), Tok("TYPE", "string")>>
        \o ArrowWith("show", "ver") \o <<NL>>

\* cmd fetch
\*   -f, --flag <param> [string]
\*   -> show($param)
CmdFetch ==
    <<Tok("CMD", "cmd"), Identifier("fetch"), NL,
      Tok("FLAG", "-f"), Tok("COMMA", ","), Tok("FLAG", "--flag"),
      Tok("ARGUMENT", "param"), Tok("TYPE", "string"), NL>>
        \o ArrowWith("show", "param") \o <<NL>>

\* cmd pull
\*   -f <p> [string]
\*   -> show($f)
CmdPull ==
    <<Tok("CMD", "cmd"), Identifier("pull"), NL,
      Tok("FLAG", "-f"), Tok("ARGUMENT", "p"), Tok("TYPE", "string"), NL>>
        \o ArrowWith("show", "f") \o <<NL>>

\* root --func [bool]
RootFunc == <<Tok("ROOT", "root"), Tok("FLAG", "--func"), Tok("TYPE", "bool"), NL>>

\* the end-to-end source: appname, root alone on its line, the command hello
EndToEnd == AppnameLine \o RootAlone \o CmdHello

\* the flag lists of a declared option
FlagMenu ==
    { <<>>, <<"-f">>, <<"--force">>, <<"-f", "--force">>, <<"--force", "-f">>,
      <<"-f", "-g">>, <<"--dry-run", "--force">> }

RECURSIVE FlagTokens(_, _)
\* -f, --force
FlagTokens(flags, i) ==
    IF i > Len(flags) THEN <<>>
    ELSE <<Tok("FLAG", flags[i])>>
         \o (IF i < Len(flags) THEN <<Tok("COMMA", ",")>> ELSE <<>>)
         \o FlagTokens(flags, i + 1)

\* an optional token: none for None
Maybe(ty, x) == IF x = None THEN <<>> ELSE <<Tok(ty, x[1])>>

\* root <flags> <param> [type] [default:d] -> show()
RootOptionLine(flags, param, ty, default) ==
    <<Tok("ROOT", "root")>> \o FlagTokens(flags, 1) \o Maybe("ARGUMENT", param)
        \o Maybe("TYPE", ty)
        \o (IF default = None THEN <<>>
            ELSE <<Tok("ATTRIBUTE", "default:" \o default[1])>>)
        \o Arrow("show") \o <<NL>>

Types == {None, Some("string"), Some("int"), Some("float"), Some("bool")}

\* the programs of one root option, for every shape of option
OptionPrograms ==
    { UseLine("hostmod") \o RootOptionLine(flags, param, ty, default) :
        flags \in FlagMenu, param \in {None, Some("ver")}, ty \in Types,
        default \in {None, Some("5"), Some("true"), Some("false")} }

\* default "d"
\*   <file> [type] [default:d] [required]
\*   -> show($file)
ArgumentProgram(name, ty, default, required) ==
    UseLine("hostmod") \o <<Tok("DEFAULT", "default"), Tok("STRING", "d"), NL>>
        \o <<Tok("ARGUMENT", name)>> \o Maybe("TYPE", ty)
        \o (IF default = None THEN <<>>
            ELSE <<Tok("ATTRIBUTE", "default:" \o default[1])>>)
        \o (IF required THEN <<Tok("ATTRIBUTE", "required")>> ELSE <<>>)
        \o <<NL>> \o ArrowWith("show", "file") \o <<NL>>

\* the programs of one positional argument, for every shape of argument
ArgumentPrograms ==
    { ArgumentProgram(name, ty, default, required) :
        name \in {"file", "file..."}, ty \in {None, Some("int")},
        default \in {None, Some("5"), Some("x")}, required \in BOOLEAN }

Programs ==
    { UseLine("hostmod") \o Flatten(roots) \o CmdHello \o CmdBad :
        roots \in RootLists(MaxRoot) }
    \cup { UseLine(m) \o RootVersion \o CmdHello :
             m \in {"nomod", "hostmod.py", "", ".py"} }
    \cup { UseLine("nomod") \o UseLine(m) \o RootVersion \o CmdHello :
             m \in {"hostmod", ""} }
    \cup { UseLine("hostmod") \o roots \o body :
             roots \in {<<>>, RootVersion},
             body \in {CmdGreet, CmdCopy, CmdList, DefaultFiles, DefaultBare, <<>>} }
    \cup { EndToEnd, UseLine("hostmod") \o EndToEnd, RootVersion \o CmdHello,
            UseLine("hostmod") \o RootFunc \o CmdHello,
            UseLine("hostmod") \o RootByParam \o CmdFetch,
            UseLine("hostmod") \o CmdPull,
        UseLine("hostmod") \o RootQuietShow \o CmdHello }
    \cup OptionPrograms
    \cup ArgumentPrograms

Init == \E toks \in Programs : InitOn(Tokenized(toks))

Spec == Init /\ [][Next]_vars

-----------------------------------------------------------------------------
(* The parser alone, over every short token sequence *)

MaxTokens == 4

TokenMenu ==
    { Tok("CMD", "cmd"), Tok("DEFAULT", "default"), Tok("ROOT", "root"),
      Tok("USE", "use"), Tok("APPNAME", "appname"), Tok("IDENTIFIER", "x"), Tok("STRING", "s"),
      Tok("FLAG", "-f"), Tok("ARROW", "->"), Tok("NEWLINE", "\n") }

\* longer token lists, with the parameter list of an action in them: well
\* formed, with a "$" that no identifier follows, with a word in the place
\* of a parameter, and without the closing parenthesis
TokenSamples ==
    { <<Tok("ROOT", "root"), Tok("FLAG", "-f")>> \o ArrowWith("show", "f") \o <<NL>>,
      <<Tok("CMD", "cmd"), Identifier("x"), NL, Tok("ARROW", "->"), Identifier("run"),
        Tok("LPAREN", "("), Tok("DOLLAR", "$"), Identifier("a"), Tok("COMMA", ","),
        Tok("DOLLAR", "$"), Identifier("b"), Tok("RPAREN", ")"), NL>>,
      <<Tok("CMD", "cmd"), Identifier("x"), NL, Tok("ARROW", "->"), Identifier("run"),
        Tok("LPAREN", "("), Tok("DOLLAR", "$"), Tok("RPAREN", ")"), NL>>,
      <<Tok("CMD", "cmd"), Identifier("x"), NL, Tok("ARROW", "->"), Identifier("run"),
        Tok("LPAREN", "("), Identifier("a"), Tok("RPAREN", ")"), NL>>,
      <<Tok("CMD", "cmd"), Identifier("x"), NL, Tok("ARROW", "->"), Identifier("run"),
        Tok("LPAREN", "("), Tok("DOLLAR", "$"), Identifier("a"), NL>> }

InitParse ==
    \E toks \in SeqsUpTo(TokenMenu, MaxTokens) \cup TokenSamples :
        InitOn(Tokenized(toks))

SpecParse == InitParse /\ [][ParseNext]_vars

-----------------------------------------------------------------------------
(* The lexer alone, over short source texts *)

MaxPieces == 3

\* the pieces short source texts are made of
Pieces == { "use", "cmd", "root", "x", "-", ".", "_", " ", "\n", "\"", "#", "~" }

RECURSIVE Joined(_)
\* the concatenation of a sequence of strings
Joined(q) == IF q = <<>> THEN "" ELSE q[1] \o Joined(Tail(q))

\* lines of the language, and texts on which one of the bracketed rules fails
Samples ==
    { "appname \"demo\"\nuse \"pkg.py\"\n",
      "cmd hello \"say \\\"hi\\\"\"\n\t<name> [string] [required]\n\t-> pkg.say($name)\n",
      "root -u, --update <ver> [string] [default:w] -> show($update)",
      "default \"d\"\n  --n [choice:a,b] [if(x)] [multiple]\n",
      "option [int] [float] [bool] # note\n",
      "[if(a)b)]", "[default:a]]", "<>", "\"a\\\n\"", "\"a\nb\" ~" }

Sources == { Joined(q) : q \in SeqsUpTo(Pieces, MaxPieces) } \cup Samples

\* Lexer(source), before CLIScriptParser.parse calls tokenize
InitLex ==
    /\ \E source \in Sources : lexer = Lexer(source)
    /\ pc = "lex"
    /\ tokens = <<>>
    /\ position = 1
    /\ ast = <<>>
    /\ has_default = FALSE
    /\ has_commands = FALSE
    /\ parser_root = <<>>
    /\ imported_modules = <<>>
    /\ has_default_command = FALSE
    /\ default_command = None
    /\ appname = "CLI Tool"
    /\ root_options = <<>>
    /\ root_actions = EmptyDict
    /\ parser = None
    /\ argv = <<>>
    /\ args = None
    /\ calls = <<>>
    /\ stderr = <<>>
    /\ stdout = <<>>
    /\ exit_code = None

SpecLex == InitLex /\ [][LexNext]_vars

-----------------------------------------------------------------------------
(* Properties: what the specification document says of the program *)

\* x occurs in the sequence q
InSeq(x, q) == \E k \in 1..Len(q) : q[k] = x

\* two Python values are equal: the same type and the same content
SameValue(a, b) == a.t = b.t /\ a.v = b.v

\* some flag of the option stands on the command line
Supplied(option, av) ==
    \E i \in 1..Len(av) : \E j \in 1..Len(option.flags) : av[i] = option.flags[j]

\* run() ended after the command line was parsed into a namespace
Dispatched == pc = "done" /\ args # None

\* an entry of calls
Call(function, kwargs, site) ==
    [function |-> function, kwargs |-> kwargs, site |-> site]

\* the end-to-end source of the document, as written and with a module loaded
EndToEndSources ==
    { Tokenized(EndToEnd), Tokenized(UseLine("hostmod") \o EndToEnd) }

\* C1: for the end-to-end source (appname, "root" alone on its line, the line
\* -v [bool] "verbose" -> pkg.version(), the command hello with <name> and
\* -> pkg.say($name)) no finished run reports a failure of run(); the
\* command line hello <word> calls pkg.say(name=<word>) and nothing else, the
\* command line -v calls pkg.version() and nothing else and exits with 0.
C1_EndToEnd ==
    (pc = "done" /\ tokens \in EndToEndSources) =>
        /\ ~InSeq("Error:", stderr)
        /\ (Len(argv) = 2 /\ argv[1] = "hello" /\ argv[2] = "w") =>
               calls = <<Call("pkg.say", [name |-> PyStr(argv[2])], 0)>>
        /\ argv = <<"-v">> =>
               /\ calls = <<Call("pkg.version", EmptyDict, 1)>>
               /\ exit_code = Some(0)

\* C1: the end-to-end source ends in the report of an error with status 1
\* before any command line is read, and nothing is called.
C1_BuildFails ==
    /\ pc = "done"
    /\ tokens \in EndToEndSources
    /\ InSeq("Error:", stderr)
    /\ calls = <<>>
    /\ exit_code = Some(1)

\* the declared default of an option, converted by the option's type
DeclaredDefault(option) == OptionDefault(option).val

\* eligibility as the document defines it: a boolean option whose value is
\* true; a valued option whose value was given and differs from its declared
\* default
Eligible(option, ns) ==
    /\ Get(option, "_dest_name", None) \notin {None, Some("")}
    /\ option["_dest_name"][1] \in DOMAIN ns
    /\ IF option.data_type = Some("bool")
       THEN SameValue(ns[option["_dest_name"][1]], PyBool(TRUE))
       ELSE /\ ns[option["_dest_name"][1]].t # "none"
            /\ \/ "default" \notin DOMAIN option.attributes
               \/ ~SameValue(ns[option["_dest_name"][1]], DeclaredDefault(option))

\* the eligible root options that carry an action
EligibleActions(options, ns) ==
    { i \in 1..Len(options) :
        "action" \in DOMAIN options[i] /\ Eligible(options[i], ns) }

\* the least number of a non-empty set of numbers
Least(S) == CHOOSE i \in S : \A j \in S : i <= j

\* C2: in every run in which some root option is eligible and carries an
\* action, only the function of the first such option is invoked, at most
\* once; the run ends with status 0 when that call completed and with status 1
\* when the function was not resolved or the call raised. Command names on the
\* command line change nothing.
C2_RootPrecedence ==
    (Dispatched /\ EligibleActions(root_options, args[1]) # {}) =>
        /\ Len(calls) <= 1
        /\ \A k \in 1..Len(calls) :
               /\ calls[k].site = Least(EligibleActions(root_options, args[1]))
               /\ calls[k].function =
                      root_options[calls[k].site].action.function
        /\ exit_code =
               IF calls # <<>> /\ ~InSeq("Error executing root option", stderr)
               THEN Some(0) ELSE Some(1)

\* a root option with flags that takes a value of type string, int or float,
\* declares a default and carries an action
ValuedWithDefault(option) ==
    /\ option.flags # <<>>
    /\ IsValued(option)
    /\ option.data_type \in {None, Some("string"), Some("int"), Some("float")}
    /\ "default" \in DOMAIN option.attributes
    /\ "action" \in DOMAIN option

\* C3: the action of a valued root option with a declared default is invoked
\* only when the parsed value differs from the declared default; when the
\* flag is not on the command line the action is not invoked.
C3_DefaultNotEligible ==
    Dispatched =>
        \A i \in 1..Len(root_options) :
            (ValuedWithDefault(root_options[i]) /\ InSeq(i, [k \in 1..Len(calls) |-> calls[k].site])) =>
                /\ Supplied(root_options[i], argv)
                /\ ~SameValue(args[1][root_options[i]["_dest_name"][1]],
                              DeclaredDefault(root_options[i]))

\* C3: a run in which the action of a valued root option with a declared
\* default was invoked although its flag is not on the command line
C3_FiresOnDefault ==
    /\ Dispatched
    /\ \E i \in 1..Len(root_options) :
           /\ ValuedWithDefault(root_options[i])
           /\ ~Supplied(root_options[i], argv)
           /\ InSeq(i, [k \in 1..Len(calls) |-> calls[k].site])

\* the number of nodes of a type in a tree
Count(tree, ty) == Cardinality({ i \in 1..Len(tree) : tree[i].type = ty })

\* no default node, or one default node and no command node
Exclusive(tree) ==
    \/ Count(tree, "default") = 0
    \/ Count(tree, "default") = 1 /\ Count(tree, "command") = 0

\* the cursor of Parser.parse stands on a declaration the tree forbids: a cmd
\* after a default, a default after a cmd or after a default
AtViolation ==
    /\ Parsing
    /\ \/ _match(tokens, position, "CMD") /\ Count(ast, "default") > 0
       \/ /\ _match(tokens, position, "DEFAULT")
          /\ Count(ast, "default") + Count(ast, "command") > 0

\* C4: cmd and default declarations exclude each other.  Every step of the
\* parser leaves a tree with no default node, or with one default node and no
\* command node, whatever tokens lie between the declarations; at the first
\* declaration that breaks the rule the parser raises, appends nothing, and
\* never returns a tree.
C4_CmdDefaultExclusive ==
    [][ /\ Exclusive(ast')
        /\ AtViolation => (pc' = "raised" /\ ast' = ast)
        /\ pc = "raised" => pc' = "raised" ]_vars

\* C4: the parser raised at a default declared after a command
C4_RaisedAtDefault ==
    /\ pc = "raised"
    /\ tokens[position].type = "DEFAULT"
    /\ Count(ast, "command") = 1
    /\ Count(ast, "default") = 0

\* a flag without its leading dashes, the other dashes as underscores
FlagName(flag) == Replace(LStrip(flag, "-"), "-", "_")

\* the long flags of a flag list, in order
LongFlags(flags) == SelectSeq(flags, LAMBDA f : StartsWith(f, "--"))

\* the destination name the document derives: the first long flag, else the
\* first short flag; the parameter name only for a valued option without flags
DerivedDest(option) ==
    IF LongFlags(option.flags) # <<>> THEN Some(FlagName(LongFlags(option.flags)[1]))
    ELSE IF option.flags # <<>> THEN Some(FlagName(option.flags[1]))
    ELSE IF IsValued(option) THEN option.param
    ELSE None

RECURSIVE BodyOptions(_, _)
\* the options declared in the bodies of the tree, in order
BodyOptions(tree, i) ==
    IF i > Len(tree) THEN <<>>
    ELSE (IF tree[i].type \in {"command", "default"} THEN tree[i].body.options
          ELSE <<>>) \o BodyOptions(tree, i + 1)

\* C5: every option the schema builder has registered, a root option or an
\* option of a body, carries the destination name derived from its first long
\* flag, else from its first short flag, and from its parameter name only when
\* it is a valued option without flags.
C5_DestName ==
    \A o \in { root_options[i] : i \in 1..Len(root_options) }
             \cup { BodyOptions(ast, 1)[i] : i \in 1..Len(BodyOptions(ast, 1)) } :
        "_dest_name" \in DOMAIN o => o["_dest_name"] = DerivedDest(o)

\* C5: a valued root option with short flags only is registered under its
\* parameter name
C5_ParamOverShortFlag ==
    \E i \in 1..Len(root_options) :
        /\ IsValued(root_options[i])
        /\ root_options[i].flags = <<"-f">>
        /\ Get(root_options[i], "_dest_name", None) = root_options[i].param

\* the function path of the action this run dispatches: that of the first
\* root option whose action runs, else that of the selected command
DispatchedFunction ==
    IF FirstFiring(root_options, args[1]) # 0
    THEN Some(root_options[FirstFiring(root_options, args[1])].action.function)
    ELSE IF "func" \in DOMAIN args[1] /\ args[1]["func"].t = "func"
    THEN Some(args[1]["func"].v.action.function)
    ELSE None

\* C6: when the function path of the dispatched action, of a root option or
\* of a command, does not resolve to a callable, the failure is reported on
\* the error stream, the run ends with a non-zero status, and no function is
\* called.
C6_Unresolvable ==
    (/\ Dispatched
     /\ DispatchedFunction # None
     /\ ~_get_function(imported_modules, DispatchedFunction[1])) =>
        /\ InSeq("Error: Function not found", stderr)
        /\ exit_code \notin {None, Some(0)}
        /\ calls = <<>>

\* C6: a command whose function does not resolve ends with status 0
C6_CommandUnresolvedExitsZero ==
    /\ Dispatched
    /\ FirstFiring(root_options, args[1]) = 0
    /\ DispatchedFunction # None
    /\ ~_get_function(imported_modules, DispatchedFunction[1])
    /\ InSeq("Error: Function not found", stderr)
    /\ exit_code = Some(0)

\* the reports of an action that raised
RaiseReports ==
    SelectSeq(stderr, LAMBDA e : e \in {"Error executing root option",
                                        "Error executing command"})

\* C7: an action that raises is caught and reported once and the run ends
\* with status 1, for the action of a command as for the action of a root
\* option; a run that called an action ends with status 0 only when the
\* action completed.
C7_RaiseExitsOne ==
    pc = "done" =>
        /\ RaiseReports # <<>> => (Len(RaiseReports) = 1 /\ exit_code = Some(1))
        /\ (exit_code = Some(0) /\ calls # <<>>) => RaiseReports = <<>>

\* C7: the action of a command raised and the run ended with status 0
C7_CommandRaiseExitsZero ==
    /\ pc = "done"
    /\ RaiseReports = <<"Error executing command">>
    /\ exit_code = Some(0)

\* the body the command line selects: the default command's, or that of the
\* command the namespace names
Selected(node, ns) ==
    \/ node.type = "default"
    \/ /\ node.type = "command"
       /\ "command" \in DOMAIN ns
       /\ SameValue(ns["command"], PyStr(node.name))

RECURSIVE SelectedOptions(_, _, _)
\* the options of the selected body
SelectedOptions(tree, ns, i) ==
    IF i > Len(tree) THEN <<>>
    ELSE (IF Selected(tree[i], ns) THEN tree[i].body.options ELSE <<>>)
         \o SelectedOptions(tree, ns, i + 1)

\* the options whose flags the command line of this run may carry
OptionsInForce == root_options \o SelectedOptions(ast, args[1], 1)

\* the parsers that store into the namespace of this run
ParsersInForce ==
    <<parser[1]>> \o
    (IF "command" \in DOMAIN args[1] /\ args[1]["command"].t = "str"
     THEN <<Subparser(parser[1], args[1]["command"].v)>> ELSE <<>>)

\* option k of the options in force shares no flag with another of them, and
\* nothing else of the parsers in force stores under its destination name:
\* no other action, and no handler set as the default of func
Unshared(k) ==
    /\ OptionsInForce[k]["_dest_name"] = Some("func") =>
           \A p \in 1..Len(ParsersInForce) : ParsersInForce[p].func = None
    /\ \A j \in 1..Len(OptionsInForce) :
           j # k => \A a \in 1..Len(OptionsInForce[j].flags) :
                        ~InSeq(OptionsInForce[j].flags[a], OptionsInForce[k].flags)
    /\ Cardinality(UNION { { <<p, a>> : a \in
                   { n \in 1..Len(ParsersInForce[p].actions) :
                       Some(ParsersInForce[p].actions[n].dest) =
                           OptionsInForce[k]["_dest_name"] } } :
               p \in 1..Len(ParsersInForce) }) = 1

\* a boolean option with flags, declared [default:true], [default:false] or
\* without a default
Toggle(option) ==
    /\ option.data_type = Some("bool")
    /\ option.flags # <<>>
    /\ Get(option, "_dest_name", None) # None
    /\ Get(option.attributes, "default", "false") \in {"true", "false"}

\* C8: a boolean option is a toggle whose pressed value is the inverse of its
\* declared default.  After every parsed command line, an option declared
\* [default:true] holds true when its flag is omitted and false when it is
\* supplied; an option declared [default:false], or without a default, holds
\* false when omitted and true when supplied.  (Said of options that share
\* neither a flag nor a destination name with another option in force, nor
\* the name func with the handler of a command.)
C8_TogglePolarity ==
    Dispatched =>
        \A k \in 1..Len(OptionsInForce) :
            (Toggle(OptionsInForce[k]) /\ Unshared(k)) =>
                SameValue(args[1][OptionsInForce[k]["_dest_name"][1]],
                          PyBool(Supplied(OptionsInForce[k], argv)
                                 # (Get(OptionsInForce[k].attributes, "default",
                                        "false") = "true")))

\* C8: an option declared [default:true] whose flag was supplied holds false
C8_PressedFalse ==
    /\ Dispatched
    /\ \E k \in 1..Len(OptionsInForce) :
           /\ Toggle(OptionsInForce[k]) /\ Unshared(k)
           /\ Get(OptionsInForce[k].attributes, "default", "false") = "true"
           /\ Supplied(OptionsInForce[k], argv)
           /\ SameValue(args[1][OptionsInForce[k]["_dest_name"][1]], PyBool(FALSE))

\* _build_parser succeeded: run() went on to read the command line
SchemaBuilt ==
    /\ pc \in {"run_execute", "root_options", "dispatch", "done"}
    /\ ~InSeq("Error:", stderr)

\* the parser the arguments of a body are registered in
BodyParser(node) ==
    IF node.type = "default" THEN parser[1] ELSE Subparser(parser[1], node.name)

\* the positional registered for argument k of a body: the arguments are the
\* last positionals of the body's parser
Registered(node, k) ==
    Positionals(BodyParser(node), 1)
        [Len(Positionals(BodyParser(node), 1)) - Len(node.body.arguments) + k]

\* the cardinality the document gives an argument, as the least and the most
\* values it takes out of n offered
LeastValues(argument) ==
    IF argument.variadic
    THEN (IF "default" \in DOMAIN argument.attributes THEN 0 ELSE 1)
    ELSE IF "default" \in DOMAIN argument.attributes THEN 0
    ELSE IF "required" \in DOMAIN argument.attributes THEN 1
    ELSE 0

MostValues(argument, n) ==
    IF argument.variadic THEN n ELSE IF n >= 1 THEN 1 ELSE 0

\* a default-command program that declares one argument and nothing else
OneArgument ==
    /\ root_options = <<>>
    /\ \E i \in 1..Len(ast) :
           /\ ast[i].type = "default"
           /\ ast[i].body.options = <<>>
           /\ Len(ast[i].body.arguments) = 1

\* the argument of such a program
TheArgument ==
    ast[CHOOSE i \in 1..Len(ast) : ast[i].type = "default"].body.arguments[1]

\* C9: the cardinality of a positional argument follows from variadic,
\* default and required: variadic with a default takes zero or more values,
\* variadic without a default one or more, non-variadic with a default zero
\* or one (also when required), non-variadic required without a default
\* exactly one, any other zero or one.  Every argument is registered with
\* that cardinality, and a program of one argument accepts a command line of
\* plain words only when their number is within it, rejecting any other.
C9_Cardinality ==
    SchemaBuilt =>
        /\ \A i \in 1..Len(ast) :
               ast[i].type \in {"command", "default"} =>
                   \A k \in 1..Len(ast[i].body.arguments) :
                       \A n \in 0..MaxArgv :
                           /\ MinArgs(Registered(ast[i], k).nargs) =
                                  LeastValues(ast[i].body.arguments[k])
                           /\ MaxArgs(Registered(ast[i], k).nargs, n) =
                                  MostValues(ast[i].body.arguments[k], n)
        /\ (pc = "done" /\ OneArgument /\ ~InSeq("-h", argv)) =>
               /\ args # None =>
                      /\ Len(argv) >= LeastValues(TheArgument)
                      /\ Len(argv) <= MostValues(TheArgument, Len(argv))
               /\ (\/ Len(argv) < LeastValues(TheArgument)
                   \/ Len(argv) > MostValues(TheArgument, Len(argv))) =>
                      (exit_code = Some(2) /\ calls = <<>>)

\* C9: a variadic argument without a default rejected an empty command line
C9_ZeroRejected ==
    /\ pc = "done"
    /\ OneArgument
    /\ TheArgument.variadic
    /\ "default" \notin DOMAIN TheArgument.attributes
    /\ parser # None /\ SchemaBuilt
    /\ argv = <<>>
    /\ exit_code = Some(2)

\* the body of the command whose handler this run calls
HandlerBody == args[1]["func"].v.command_node.body

\* C10: every parameter of a command's action that names a variadic argument
\* of the command's body reaches the function as a sequence, in every run
\* that reaches the call: the list of the values supplied, or the declared
\* default wrapped into a list of one; never a bare scalar or None.
C10_VariadicIsSequence ==
    \A c \in 1..Len(calls) :
        calls[c].site = 0 =>
            \A var \in DOMAIN calls[c].kwargs :
                IsVariadic(var, HandlerBody.arguments) =>
                    calls[c].kwargs[var].t = "list"

\* C10: a call whose parameter names a variadic argument and is passed None
C10_PassedNone ==
    \E c \in 1..Len(calls) :
        /\ calls[c].site = 0
        /\ \E var \in DOMAIN calls[c].kwargs :
               /\ IsVariadic(var, HandlerBody.arguments)
               /\ calls[c].kwargs[var] = PyNone

\* the use declarations of a tree whose module does not load
FailedUses(tree) ==
    { i \in 1..Len(tree) :
        tree[i].type = "use" /\ RemovePy(tree[i].module) \notin Importable }

\* the use declarations of a tree whose module loads
LoadedUses(tree) ==
    { i \in 1..Len(tree) :
        tree[i].type = "use" /\ RemovePy(tree[i].module) \in Importable }

\* the reports of a module that did not load
LoadReports(err) == SelectSeq(err, LAMBDA e : e = "Error: Could not import module")

\* a finished run of a program with a failed use: without a dispatched action
\* it ends with status 0 (help included); a dispatched action fails to resolve
\* when no module loaded, and is called when its path resolves in the first
\* module that loaded
AfterFailedUse ==
    (pc = "done" /\ FailedUses(ast) # {}) =>
        /\ (args = None /\ InSeq("help", stdout)) => exit_code = Some(0)
        /\ (args # None /\ DispatchedFunction = None) => exit_code = Some(0)
        /\ (args # None /\ DispatchedFunction # None) =>
               IF LoadedUses(ast) # {}
                  /\ Walk(Split(DispatchedFunction[1], "."), 1, "")
               THEN Len(calls) = 1 /\ calls[1].function = DispatchedFunction[1]
               ELSE calls = <<>> /\ InSeq("Error: Function not found", stderr)

\* C11: a failed module load never aborts the run.  The import step always
\* goes on to schema building, having logged every module that did not load
\* and kept the modules that did, the first to load first; a run that
\* dispatches no action still ends with status 0, and the failure surfaces
\* only when an action is dispatched and its function does not resolve.
C11_LoadFailureContinues ==
    [][ /\ pc = "run_import" =>
              /\ pc' = "run_check_default"
              /\ Len(LoadReports(stderr')) = Cardinality(FailedUses(ast))
              /\ (imported_modules' # <<>>) = (LoadedUses(ast) # {})
              /\ LoadedUses(ast) # {} =>
                     imported_modules'[1] =
                         RemovePy(ast[Least(LoadedUses(ast))].module)
        /\ AfterFailedUse' ]_vars

\* C11: the run ended in the import step, at a use whose module name makes
\* the import raise something other than an ImportError
C11_LoadAborts ==
    /\ pc = "done"
    /\ parser = None
    /\ exit_code = Some(1)
    /\ \E i \in FailedUses(ast) : Malformed(RemovePy(ast[i].module))

RECURSIVE RootOptionsOf(_, _)
\* the options of the root set of a tree
RootOptionsOf(tree, i) ==
    IF i > Len(tree) THEN <<>>
    ELSE (IF tree[i].type = "root_options" THEN tree[i].options ELSE <<>>)
         \o RootOptionsOf(tree, i + 1)

RECURSIVE BodyArguments(_, _)
\* the arguments declared in the bodies of a tree
BodyArguments(tree, i) ==
    IF i > Len(tree) THEN <<>>
    ELSE (IF tree[i].type \in {"command", "default"} THEN tree[i].body.arguments
          ELSE <<>>) \o BodyArguments(tree, i + 1)

\* an int or float declaration whose default literal the conversion rejects
BadNumericDefault(d) ==
    /\ "default" \in DOMAIN d.attributes
    /\ \/ d.data_type = Some("int") /\ ToInt(d.attributes["default"]).err
       \/ d.data_type = Some("float") /\ ToFloat(d.attributes["default"]).err

\* the tree declares such an option or argument
DeclaresBadDefault(tree) ==
    \E d \in { RootOptionsOf(tree, 1)[i] : i \in 1..Len(RootOptionsOf(tree, 1)) }
             \cup { BodyOptions(tree, 1)[i] : i \in 1..Len(BodyOptions(tree, 1)) }
             \cup { BodyArguments(tree, 1)[i] : i \in 1..Len(BodyArguments(tree, 1)) } :
        BadNumericDefault(d)

\* C12: a malformed numeric default on an int or float option or argument
\* fails when the schema is built: the run never reads the command line, it
\* ends with status 1, and no action of a root option or of a command is
\* invoked, whether or not the command line would have used the declaration.
C12_BadDefaultFailsAtBuild ==
    (pc \in {"run_execute", "root_options", "dispatch", "done"}
     /\ DeclaresBadDefault(ast)) =>
        /\ pc = "done"
        /\ exit_code = Some(1)
        /\ args = None /\ argv = <<>>
        /\ calls = <<>>

\* C12: a run of a program with a malformed numeric default, ended by run()
\* with status 1 after the import step
C12_BuildRejected ==
    /\ pc = "done"
    /\ DeclaresBadDefault(ast)
    /\ ~(\E i \in FailedUses(ast) : Malformed(RemovePy(ast[i].module)))
    /\ InSeq("Error:", stderr)
    /\ exit_code = Some(1)

\* the command line is one flag of a valued root option that declares a
\* default and carries an action, and nothing else
FlagAlone ==
    /\ Len(argv) = 1
    /\ \E i \in 1..Len(root_options) :
           ValuedWithDefault(root_options[i]) /\ InSeq(argv[1], root_options[i].flags)

\* C13: a valued root option with a default and an action accepts its flag
\* with no value after it: the command line of the flag alone is parsed into
\* a namespace, and the run ends with status 0 (with status 1 only when the
\* action itself fails).
C13_FlagAloneAccepted ==
    (pc = "done" /\ FlagAlone) =>
        /\ args # None
        /\ exit_code # Some(2)
        /\ (RaiseReports = <<>> /\ ~InSeq("Error: Function not found", stderr)) =>
               exit_code = Some(0)

\* C13: the flag alone was rejected with a usage error and status 2
C13_FlagAloneRejected ==
    /\ pc = "done"
    /\ FlagAlone
    /\ args = None
    /\ InSeq("usage", stderr)
    /\ exit_code = Some(2)

\* the command line selected a command
CommandSelected == "command" \in DOMAIN args[1] /\ args[1]["command"].t = "str"

\* the nodes of the tree whose body the command line selects
SelectedNodes == { i \in 1..Len(ast) : Selected(ast[i], args[1]) }

\* C14: when no root action fired, a multi-command program with no command
\* selected displays help, invokes no function and ends with status 0; a
\* single-command program whose default body has no action invokes no
\* function and ends with status 0; otherwise nothing but the action bound to
\* the selected command is invoked, once (and it is invoked whenever its
\* function resolves).
C14_Dispatch ==
    (Dispatched /\ FirstFiring(root_options, args[1]) = 0) =>
        /\ (~has_default_command /\ ~CommandSelected) =>
               /\ InSeq("help", stdout)
               /\ calls = <<>>
               /\ exit_code = Some(0)
        /\ \A i \in SelectedNodes :
               IF ast[i].body.action = None
               THEN /\ calls = <<>>
                    /\ ast[i].type = "default" => exit_code = Some(0)
               ELSE /\ Len(calls) <= 1
                    /\ \A c \in 1..Len(calls) :
                           /\ calls[c].site = 0
                           /\ calls[c].function = ast[i].body.action[1].function
                    /\ _get_function(imported_modules,
                                     ast[i].body.action[1].function) => Len(calls) = 1

\* C14: a multi-command run with no command selected and no root action
\* ended in an error of run() with status 1, without displaying help
C14_NoCommandFails ==
    /\ Dispatched
    /\ FirstFiring(root_options, args[1]) = 0
    /\ ~has_default_command /\ ~CommandSelected
    /\ stdout = <<>>
    /\ InSeq("Error:", stderr)
    /\ exit_code = Some(1)

\* the length of the longest match of a rule of the table at i
Longest(s, i) ==
    CHOOSE n \in { ReMatch(k, s, i) : k \in 1..Len(rules) } :
        \A k \in 1..Len(rules) : ReMatch(k, s, i) <= n

\* the first of the rules whose match at i is the longest
LongestRule(s, i) ==
    CHOOSE k \in 1..Len(rules) :
        /\ ReMatch(k, s, i) = Longest(s, i)
        /\ \A j \in 1..(k - 1) : ReMatch(j, s, i) < Longest(s, i)

\* the identifier-shaped word that starts at i
WordAt(s, i) == SubSeq(s, i, i + IdentifierPattern(s, i) - 1)

Keywords == {"use", "cmd", "default", "option", "root", "appname"}

KeywordTypes == {"USE", "CMD", "DEFAULT", "OPTION", "ROOT", "APPNAME"}

\* a step of the lexer that reads at a position where a rule matches
Reads == pc = "lex" /\ pc' = "lex" /\ lexer' # lexer

\* C15: at every position the lexer reads, the text consumed is the longest
\* match of any rule and the token emitted is the one of the first rule with
\* that longest match; on an identifier-shaped word a keyword token is emitted
\* exactly when the word is the keyword.
C15_LongestMatch ==
    [][ Reads =>
          /\ lexer'.position = lexer.position + Longest(lexer.source, lexer.position)
          /\ Len(lexer'.tokens) > Len(lexer.tokens) =>
                 \/ lexer'.tokens[Len(lexer'.tokens)].type
                        = rules[LongestRule(lexer.source, lexer.position)].type
                 \/ /\ lexer'.tokens[Len(lexer'.tokens)].type = "ARGUMENT"
                    /\ LongestRule(lexer.source, lexer.position) = 16
          /\ IdentifierPattern(lexer.source, lexer.position) > 0 =>
                 /\ Len(lexer'.tokens) = Len(lexer.tokens) + 1
                 /\ (lexer'.tokens[Len(lexer'.tokens)].type \in KeywordTypes)
                        = (WordAt(lexer.source, lexer.position) \in Keywords)
      ]_vars

\* C15: the source use-x was lexed as the keyword use and the flag -x
C15_KeywordSplitsWord ==
    /\ lexer # None
    /\ lexer.source = "use-x"
    /\ lexer.position > Len(lexer.source)
    /\ Len(lexer.tokens) >= 2
    /\ lexer.tokens[1].type = "USE" /\ lexer.tokens[1].value = "use"
    /\ lexer.tokens[2].type = "FLAG" /\ lexer.tokens[2].value = "-x"

\* the newlines of s before i
NewlinesIn(s, i) == { k \in 1..(i - 1) : CharAt(s, k) = "\n" }

\* the 1-based line of the character at i
LineOf(s, i) == 1 + Cardinality(NewlinesIn(s, i))

\* the 1-based column of the character at i: its distance from the last
\* newline before it, or from the start of the text
ColumnOf(s, i) ==
    i - (IF NewlinesIn(s, i) = {} THEN 0
         ELSE CHOOSE k \in NewlinesIn(s, i) : \A j \in NewlinesIn(s, i) : j <= k)

\* the lexer stands at a position at which no rule matches
Stuck == Lexing /\ MatchingRules(lexer.source, lexer.position) = {}

\* C16: when the lexer reaches a position at which no rule matches, its next
\* step raises the error with the character at that position and the 1-based
\* line and column of it, and neither a token list nor an AST is returned; the
\* line and column the lexer keeps are those of its position in the source;
\* a token list is returned only when no such position was reached.
C16_UnexpectedCharacter ==
    [][ /\ Stuck =>
              /\ pc' = "raised"
              /\ lexer'.error =
                     Some([line |-> LineOf(lexer.source, lexer.position),
                           column |-> ColumnOf(lexer.source, lexer.position),
                           char |-> CharAt(lexer.source, lexer.position)])
              /\ lexer'.position = lexer.position
              /\ tokens' = <<>>
              /\ ast' = <<>>
        /\ (pc = "lex" /\ ~Stuck) =>
              /\ pc' # "raised"
              /\ lexer'.error = None
              /\ lexer'.line = LineOf(lexer.source, lexer'.position)
              /\ lexer'.column = ColumnOf(lexer.source, lexer'.position)
        /\ pc' = "parse" => lexer'.position = Len(lexer.source) + 1
      ]_vars

\* C16: the error was raised on the second line, past its first column, after
\* tokens had been read
C16_RaisedOnSecondLine ==
    /\ pc = "raised"
    /\ lexer # None
    /\ lexer.error # None
    /\ lexer.error[1].line = 2
    /\ lexer.error[1].column > 1
    /\ lexer.tokens # <<>>
    /\ tokens = <<>>

\* every option of a tree: the root options, then the options of the bodies
OptionDefs(tree) == RootOptionsOf(tree, 1) \o BodyOptions(tree, 1)

\* C17: when parse has returned an AST, every option in it, a root option or
\* an option of a body, has at least one flag.
C17_FlagsNonEmpty ==
    pc = "run_import" =>
        \A k \in 1..Len(OptionDefs(ast)) : OptionDefs(ast)[k].flags # <<>>

\* C17: parse returned an AST with a root option that has no flag, from a
\* token list in which root is followed by a newline, a string or the end
C17_RootWithoutFlags ==
    /\ pc = "run_import"
    /\ \E k \in 1..Len(RootOptionsOf(ast, 1)) : RootOptionsOf(ast, 1)[k].flags = <<>>
    /\ \E i \in 1..(Len(tokens) - 1) :
           /\ tokens[i].type = "ROOT"
           /\ tokens[i + 1].type \in {"NEWLINE", "STRING", "EOF"}

\* compile has returned: the runner is at work on the AST, or has ended
Compiled == pc \notin {"lex", "parse", "raised"}

\* C18: once compile has returned the AST, no step of the runner (import,
\* schema building, command-line parsing, dispatch) changes it: every node
\* keeps the keys and values the parser gave it.
C18_AstUnchanged == [][ Compiled => ast' = ast ]_vars

\* C18: after schema building an option of the AST carries the key _dest_name,
\* which no option the parser returns has
C18_OptionGainedKey ==
    /\ pc \in {"run_execute", "done"}
    /\ \E k \in 1..Len(OptionDefs(ast)) : "_dest_name" \in DOMAIN OptionDefs(ast)[k]

\* the token at the cursor is one the top-level loop has no branch for
NoStatementStarts ==
    /\ Parsing
    /\ tokens[position].type \notin
           {"NEWLINE", "APPNAME", "USE", "ROOT", "CMD", "DEFAULT"}

EmptyBody == [options |-> <<>>, arguments |-> <<>>, action |-> None]

\* an iteration of the command-body loop at p raises or moves the cursor on
BodyIterationConsumes(toks, p) ==
    BodyContinues(toks, p) =>
        BodyStep(toks, p, EmptyBody).err \/ BodyStep(toks, p, EmptyBody).pos > p

\* an iteration of the action-parameter loop at p, which is entered when the
\* token is neither ")" nor the end: at "$" it raises or moves the cursor on,
\* at any other token it leaves the loop with the cursor where it was
ParamIterationConsumes(toks, p) ==
    (~_match(toks, p, "RPAREN") /\ ~_is_eof(toks, p)) =>
        IF _match(toks, p, "DOLLAR")
        THEN \/ ParseParams(toks, p, <<>>).err
             \/ ParamStep(toks, _expect(toks, p + 1, "IDENTIFIER"), <<>>).pos > p
        ELSE ParseParams(toks, p, <<>>) = Ok(p, <<>>)

\* C19: the parser terminates on every token list that ends with EOF: the
\* cursor never decreases and never passes the EOF token; every iteration of
\* the top-level loop moves the cursor on or ends parse, by returning the AST
\* or by raising SyntaxError; every iteration of the command-body loop and of
\* the action-parameter loop moves the cursor on, raises or leaves the loop;
\* an unrecognized top-level token is consumed alone and adds no node.
C19_ParserTerminates ==
    /\ [][ pc = "parse" =>
             /\ position' >= position
             /\ position' <= Len(tokens)
             /\ pc' \in {"parse", "run_import", "raised"}
             /\ pc' = "parse" => position' > position
             /\ NoStatementStarts =>
                    /\ position' = position + 1
                    /\ pc' = "parse"
                    /\ ast' = ast
                    /\ parser_root' = parser_root
         ]_vars
    /\ [](pc = "parse" =>
             \A p \in 1..Len(tokens) :
                 /\ BodyIterationConsumes(tokens, p)
                 /\ ParamIterationConsumes(tokens, p))

\* C19: parse returned after its top-level loop had skipped a token: the
\* cursor is on EOF past a token that no statement starts with, and no node
\* came of it
C19_SkippedAndReturned ==
    /\ pc = "run_import"
    /\ position = Len(tokens)
    /\ Len(tokens) >= 3
    /\ tokens[1].type \in {"IDENTIFIER", "STRING", "FLAG", "ARROW"}
    /\ Len(ast) < Len(tokens) - 1

\* the options in whose scope the action of call c was written: the root
\* option that carries it, or the options of the body of the command
ScopeOf(c) ==
    IF calls[c].site = 0 THEN HandlerBody.options
    ELSE <<root_options[calls[c].site]>>

\* option o is declared with flags and binds the parameter <var>, and the
\* command line gave it a value
BindsSupplied(o, var) ==
    /\ o.flags # <<>>
    /\ IsValued(o)
    /\ o.param = Some(var)
    /\ OptionDest(o) # None
    /\ Get(args[1], OptionDest(o)[1], PyNone) # PyNone
    /\ Supplied(o, argv)

\* C20: a parameter $p of an action that names the bound parameter <p> of an
\* option declared with flags in the same body, or of the root option that
\* carries the action, reaches the function as the value the command line
\* supplied for that option, never as None.
C20_ParamIsOptionValue ==
    \A c \in 1..Len(calls) :
        \A var \in DOMAIN calls[c].kwargs :
            \A k \in 1..Len(ScopeOf(c)) :
                BindsSupplied(ScopeOf(c)[k], var) =>
                    SameValue(calls[c].kwargs[var],
                              Get(args[1], OptionDest(ScopeOf(c)[k])[1], PyNone))

\* C20: a function was called with None for $p while the option that binds
\* <p>, with a short and a long flag, was given a value on the command line
C20_ParamPassedNone ==
    \E c \in 1..Len(calls) :
        \E var \in DOMAIN calls[c].kwargs :
            \E k \in 1..Len(ScopeOf(c)) :
                /\ BindsSupplied(ScopeOf(c)[k], var)
                /\ Len(ScopeOf(c)[k].flags) = 2
                /\ calls[c].kwargs[var] = PyNone

\* the name the secondary pass of _prepare_function_args derives for option o
SecondaryName(o) == MarshalDest(o, FlagLoop(o.flags, 1, None))

\* the options of the body the secondary pass matches with the variable
MatchedBy(var, options) ==
    { k \in 1..Len(options) : SecondaryName(options[k]) = Some(var) }

\* C21: for every option of the tree the schema builder has registered, the
\* name the secondary pass of the marshaller derives is the name under which
\* the schema builder registered it; and a parameter of a called action that
\* the secondary pass matched with an option reaches the function as the value
\* the namespace holds for that option.
C21_SameDestination ==
    /\ SchemaBuilt =>
           \A k \in 1..Len(OptionDefs(ast)) :
               "_dest_name" \in DOMAIN OptionDefs(ast)[k] =>
                   SecondaryName(OptionDefs(ast)[k]) = OptionDefs(ast)[k]["_dest_name"]
    /\ \A c \in 1..Len(calls) :
           calls[c].site = 0 =>
               \A var \in DOMAIN calls[c].kwargs :
                   (var \notin DOMAIN args[1] /\ MatchedBy(var, HandlerBody.options) # {}) =>
                       \E k \in MatchedBy(var, HandlerBody.options) :
                           /\ OptionDest(HandlerBody.options[k]) # None
                           /\ SameValue(calls[c].kwargs[var],
                                        Get(args[1],
                                            OptionDest(HandlerBody.options[k])[1],
                                            PyNone))

\* C21: a function was called with None for a parameter that the secondary
\* pass matched with an option of the body, while the namespace holds the
\* value of that option under the name the schema builder registered
C21_ReadUnderOtherName ==
    \E c \in 1..Len(calls) :
        /\ calls[c].site = 0
        /\ \E var \in DOMAIN calls[c].kwargs :
               /\ calls[c].kwargs[var].t = "none"
               /\ \E k \in MatchedBy(var, HandlerBody.options) :
                      /\ OptionDest(HandlerBody.options[k]) # None
                      /\ OptionDest(HandlerBody.options[k]) # Some(var)
                      /\ Get(args[1], OptionDest(HandlerBody.options[k])[1], PyNone).t = "str"

\* the root declarations of a token list
RootDeclarations(toks) == { i \in 1..Len(toks) : toks[i].type = "ROOT" }

\* C22: every root declaration of the source contributes its option to the
\* root options of the AST, wherever it stands: the statement parsed at a cmd
\* or default token never takes a root token into the command (so a root
\* declaration after it adds no option to its body and does not rebind its
\* action), and the AST parse returns has one root option for every root
\* declaration.
C22_RootIsGlobal ==
    [][ /\ (pc = "parse" /\ tokens[position].type \in {"CMD", "DEFAULT"}) =>
              \A i \in position..(position' - 1) : tokens[i].type # "ROOT"
        /\ (pc = "parse" /\ pc' = "run_import") =>
              Len(RootOptionsOf(ast', 1)) = Cardinality(RootDeclarations(tokens))
      ]_vars

\* C22: parse returned an AST without root options for a token list in which
\* a root declaration with a flag follows a command: the flag is an option of
\* the body of the command
C22_RootJoinedBody ==
    /\ pc = "run_import"
    /\ RootOptionsOf(ast, 1) = <<>>
    /\ \E i \in RootDeclarations(tokens) :
           /\ i > 1
           /\ i < Len(tokens)
           /\ tokens[i + 1].type = "FLAG"
           /\ \E k \in 1..Len(BodyOptions(ast, 1)) :
                  InSeq(tokens[i + 1].value, BodyOptions(ast, 1)[k].flags)

\* call c is the action of a boolean root option
BooleanRootCall(c) ==
    /\ calls[c].site > 0
    /\ root_options[calls[c].site].data_type = Some("bool")

\* C23: the action of a boolean root option is invoked only in runs whose
\* command line contains one of the flags of that option, whatever default it
\* declares: with the flag omitted its action is not called.
C23_BooleanNeedsFlag ==
    \A c \in 1..Len(calls) :
        BooleanRootCall(c) => Supplied(root_options[calls[c].site], argv)

\* C23: the action of a boolean root option declared [default:true] was
\* called in a run that selects a command and has none of the flags of the
\* option on its command line
C23_FiredWithoutFlag ==
    \E c \in 1..Len(calls) :
        /\ BooleanRootCall(c)
        /\ Get(root_options[calls[c].site].attributes, "default", "") = "true"
        /\ ~Supplied(root_options[calls[c].site], argv)
        /\ CommandSelected
        /\ exit_code = Some(0)

====
